---------------------------- MODULE Spec2Model ----------------------------
(***************************************************************************)
(* Moon Artifact Explorer (src/main.js): the elevation field, the shared   *)
(* lat/lon <-> Cartesian mapping, label placement, the trajectory builder  *)
(* of showTrajectory and the animation cursor driven by the frame loop.    *)
(*                                                                         *)
(* JavaScript numbers are carried as fixed-point integers:                 *)
(*   angles      AngDen units per degree (radians are the same quantity,   *)
(*               Math.PI being 180 degrees);                               *)
(*   sin, cos    TrigScale units per 1;                                    *)
(*   positions   PosScale units per scene unit;                            *)
(*   elevations  ElevScale units per scene unit in the grid, KmScale units *)
(*               per km while generateElevation accumulates;               *)
(*   weights, noise and factors in [0,1]: Milli units per 1.               *)
(* Every intermediate value stays below 2^31.                              *)
(***************************************************************************)
EXTENDS Integers, Sequences, FiniteSets, TLC

\* ------------------------------------------------------------------------
\* Configuration (src/main.js lines 8-10) and grid resolution (line 377)
\* ------------------------------------------------------------------------
MOON_RADIUS == 200
res == 72

\* fixed-point units
TrigScale == 10000
PosScale == 50
ElevScale == 1000
KmScale == 100000
Milli == 1000
\* one degree; a multiple of (res-1) and of (2*res-1), so that the latitude
\* and longitude of every grid vertex are whole numbers of units
AngDen == (res - 1) * (2 * res - 1)
Deg(d) == d * AngDen
PI == Deg(180)

\* ------------------------------------------------------------------------
\* Arithmetic helpers
\* ------------------------------------------------------------------------
Abs(a) == IF a < 0 THEN -a ELSE a
Max(a, b) == IF a > b THEN a ELSE b
Min(a, b) == IF a < b THEN a ELSE b
Sgn(a) == IF a < 0 THEN -1 ELSE 1
\* a / b rounded to the nearest integer, b > 0
RDiv(a, b) == IF a >= 0 THEN (2 * a + b) \div (2 * b)
                        ELSE -((2 * (-a) + b) \div (2 * b))

\* A Number between 1/16 and 2 as the double it is: <<hi, lo>> stands for
\* (hi * Limb + lo) * 2^-56, 0 <= lo < Limb = 2^28.  Every double in that
\* range is a whole number of these units.
Limb == 268435456
Double(hi, lo) == <<hi, lo>>
\* the literals 1, 0.1, 0.2 and 0.7 as the nearest doubles:
\* 0x1p0, 0x1.999999999999ap-4, 0x1.999999999999ap-3, 0x1.6666666666666p-1
One == Double(268435456, 0)
Tenth == Double(26843545, 161061274)
Fifth == Double(53687091, 53687092)
SevenTenths == Double(187904819, 53687088)
\* the spacing of the doubles around a value, in units: 2^-52 from 1 on,
\* 2^-53 from 1/2 on, ...
Ulp(hi) ==
  IF hi >= Limb THEN 16
  ELSE IF hi >= Limb \div 2 THEN 8
  ELSE IF hi >= Limb \div 4 THEN 4
  ELSE IF hi >= Limb \div 8 THEN 2
  ELSE 1
Carried(hi, lo) == Double(hi + lo \div Limb, lo % Limb)
\* round to nearest, ties to even
RoundTo(hi, lo, u) ==
  Carried(hi, IF 2 * (lo % u) > u \/ (2 * (lo % u) = u /\ (lo \div u) % 2 = 1)
                THEN (lo \div u + 1) * u
                ELSE (lo \div u) * u)
Nearest(x) == RoundTo(x[1], x[2], Ulp(x[1]))
\* a + b and a - b of two Numbers
Plus(a, b) == Nearest(Carried(a[1] + b[1], a[2] + b[2]))
Minus(a, b) == Nearest(Carried(a[1] - b[1], a[2] - b[2]))
LessEq(a, b) == a[1] < b[1] \/ (a[1] = b[1] /\ a[2] <= b[2])
MathMin(a, b) == IF LessEq(a, b) THEN a ELSE b
MathMax(a, b) == IF LessEq(a, b) THEN b ELSE a

\* Math.sqrt, rounded down: the largest s with s*s <= n (Newton's
\* iteration from a first guess above the root).  A step is taken on the
\* values v = <<n, x>>: from x to y = (x + n / x) / 2, until y >= x.
RECURSIVE SqrtIter(_, _)
SqrtIter(n, x) ==
  CHOOSE s \in { IF (v[2] + v[1] \div v[2]) \div 2 >= v[2]
                   THEN v[2]
                   ELSE SqrtIter(v[1], (v[2] + v[1] \div v[2]) \div 2) :
                 v \in {<<n, x>>} } : TRUE
SqrtGuess(n) ==
  IF n < 4096 THEN 64
  ELSE IF n < 1048576 THEN 1024
  ELSE IF n < 100000000 THEN 10000
  ELSE IF n < 200000000 THEN 14143
  ELSE 46341
Sqrt(n) == IF n <= 0 THEN 0 ELSE SqrtIter(n, SqrtGuess(n))

\* Math.sin of whole degrees 0..90, in TrigScale units: the sine of d
\* degrees is SinTab[d + 1], its cosine SinTab[91 - d]
SinTab ==
  << 0, 175, 349, 523, 698, 872, 1045, 1219, 1392, 1564, 1736, 1908, 2079,
     2250, 2419, 2588, 2756, 2924, 3090, 3256, 3420, 3584, 3746, 3907, 4067,
     4226, 4384, 4540, 4695, 4848, 5000, 5150, 5299, 5446, 5592, 5736, 5878,
     6018, 6157, 6293, 6428, 6561, 6691, 6820, 6947, 7071, 7193, 7314, 7431,
     7547, 7660, 7771, 7880, 7986, 8090, 8192, 8290, 8387, 8480, 8572, 8660,
     8746, 8829, 8910, 8988, 9063, 9135, 9205, 9272, 9336, 9397, 9455, 9511,
     9563, 9613, 9659, 9703, 9744, 9781, 9816, 9848, 9877, 9903, 9925, 9945,
     9962, 9976, 9986, 9994, 9998, 10000 >>

\* the table tab at d degrees and f units, linear between whole degrees
Interpolate(tab, d, f) ==
  IF f = 0 THEN tab[d + 1]
  ELSE tab[d + 1] + RDiv((tab[d + 2] - tab[d + 1]) * f, AngDen)
\* sine of an angle in [0, 90 degrees]
SinQ(a) == Interpolate(SinTab, a \div AngDen, a % AngDen)

\* Math.sin and Math.cos of any angle: m is the angle in [0, 360 degrees)
SinFold(m) ==
  IF m <= Deg(90) THEN m
  ELSE IF m <= Deg(180) THEN Deg(180) - m
  ELSE IF m <= Deg(270) THEN m - Deg(180)
  ELSE Deg(360) - m
SinSign(m) == IF m <= Deg(180) THEN 1 ELSE -1
SinTurn(m) == SinSign(m) * SinQ(SinFold(m))
Sin(a) == SinTurn(a % Deg(360))
Cos(a) == Sin(a + Deg(90))

\* the whole degree d in lo..hi with tan(d) <= y/x < tan(d+1), for x, y >= 0
RECURSIVE AtanDegIter(_, _, _, _, _)
AtanDegIter(tab, y, x, lo, hi) ==
  IF lo >= hi THEN lo
  ELSE LET mid == (lo + hi + 1) \div 2
       IN IF tab[mid + 1] * x <= tab[91 - mid] * y
            THEN AtanDegIter(tab, y, x, mid, hi)
            ELSE AtanDegIter(tab, y, x, lo, mid - 1)

\* d degrees plus sin(angle - d) = (y cos d - x sin d) / r taken as the
\* remaining angle in radians: in 1/(100 * TrigScale) radians first, turned
\* into angle units by 5817 / 10000 = AngDen * (180 / pi) / (100 * TrigScale)
AtanFraction(tab, y, x, d, r) ==
  IF d = 90 THEN Deg(90)
  ELSE Min(Deg(d)
             + RDiv(RDiv((y * tab[91 - d] - x * tab[d + 1]) * 100, r) * 5817,
                    10000),
           Deg(d + 1))
AtanTab(tab, y, x) ==
  AtanFraction(tab, y, x, AtanDegIter(tab, y, x, 0, 90), Sqrt(x * x + y * y))
\* atan2 in the first quadrant (x, y >= 0, not both 0)
AtanQ(y, x) == AtanTab(SinTab, y, x)

\* the angle a of (|x|, |y|) in the quadrant of (x, y)
Quadrant(y, x, a) ==
  IF x >= 0 /\ y >= 0 THEN a
  ELSE IF x < 0 /\ y >= 0 THEN Deg(180) - a
  ELSE IF x < 0 /\ y < 0 THEN a - Deg(180)
  ELSE -a
\* Math.atan2(y, x), in (-180, 180] degrees
Atan2(y, x) ==
  IF x = 0 /\ y = 0 THEN 0 ELSE Quadrant(y, x, AtanQ(Abs(y), Abs(x)))

\* Math.asin(y / r), in [-90, 90] degrees, for |y| <= r
Asin(y, r) == Atan2(y, Sqrt(Max(0, r * r - y * y)))

\* ------------------------------------------------------------------------
\* Vectors (THREE.Vector3), in PosScale units
\* ------------------------------------------------------------------------
Vec(x, y, z) == <<x, y, z>>
\* Vector3.length
Length(p) == Sqrt(p[1] * p[1] + p[2] * p[2] + p[3] * p[3])
\* Vector3.distanceTo, squared
DistSq(p, q) ==
  (p[1] - q[1]) * (p[1] - q[1]) + (p[2] - q[2]) * (p[2] - q[2])
    + (p[3] - q[3]) * (p[3] - q[3])
\* p * s / l
Rescale(p, s, l) == Vec(RDiv(p[1] * s, l), RDiv(p[2] * s, l), RDiv(p[3] * s, l))
\* Vector3.normalize().multiplyScalar(s): normalize divides by length() || 1
ScaleTo(p, s) == Rescale(p, s, Max(1, Length(p)))

\* ------------------------------------------------------------------------
\* latLonToVector3 (src/main.js 868-877) and the inverse used by
\* createTerrain (289-291) and the descent clearance check (1546-1547)
\* ------------------------------------------------------------------------
\* x = -radius sin(phi) cos(theta), y = radius cos(phi),
\* z = radius sin(phi) sin(theta)
Spherical(radius, phi, theta) ==
  Vec(-RDiv(radius * RDiv(Sin(phi) * Cos(theta), TrigScale), TrigScale),
      RDiv(radius * Cos(phi), TrigScale),
      RDiv(radius * RDiv(Sin(phi) * Sin(theta), TrigScale), TrigScale))
latLonToVector3(lat, lon, radius) ==
  Spherical(radius, Deg(90) - lat, lon + Deg(180))

\* lat = Math.asin(y / r), lon = Math.atan2(x, z), in degrees
Unproject(p) == [lat |-> Asin(p[2], Length(p)), lon |-> Atan2(p[1], p[3])]

\* haversine (879-886): great-circle distance in degrees.  a is in
\* TrigScale^2 units.
HaversineA(sLat, sLon, cos1, cos2) ==
  sLat * sLat + RDiv(RDiv(cos1 * cos2, TrigScale) * sLon, TrigScale) * sLon
HaversineAngle(a) == 2 * Atan2(Sqrt(a), Sqrt(TrigScale * TrigScale - a))
haversine(lat1, lon1, lat2, lon2) ==
  HaversineAngle(Max(0, Min(TrigScale * TrigScale,
    HaversineA(Sin((lat2 - lat1) \div 2), Sin((lon2 - lon1) \div 2),
               Cos(lat1), Cos(lat2)))))

\* simplex2D (889-893): Math.sin(x * 12.9898 + y * 78.233) * 43758.5453,
\* fractional part, in Milli units.  The callers pass x = lat * k / 100 and
\* y = lon * k / 100 with k = 2 (the argument is then 1489/100 * lat +
\* 897/10 * lon in angle units) or k = 5.  The digits of a
\* fixed-point sine differ from those of a double; the function is as in
\* the code a deterministic hash of (lat, lon) with values in [0, 1) that
\* is not periodic in lon.
SimplexArg(lat, lon, k) ==
  IF k = 2 THEN (lat * 1489) \div 100 + (lon * 897) \div 10
  ELSE (lat * 372) \div 10 + lon * 224
simplex2D(lat, lon, k) == (Sin(SimplexArg(lat, lon, k)) * 4376) % Milli

\* Math.exp(-u) for u in [0, 1], u and the result in Milli units:
\* 1 - u (1 - u/2 (1 - u/3 (1 - u/4 (1 - u/5 (1 - u/6)))))
ExpStep(u, k, inner) == Milli - (u * inner) \div (k * Milli)
ExpNeg(u) ==
  ExpStep(u, 1,
    ExpStep(u, 2, ExpStep(u, 3, ExpStep(u, 4, ExpStep(u, 5, ExpStep(u, 6, Milli))))))

\* ------------------------------------------------------------------------
\* Catalogs (src/main.js 2588-2622): lat, lon in hundredths of a degree,
\* size in km
\* ------------------------------------------------------------------------
DegC(c) == RDiv(c * AngDen, 100)
Feature(lat, lon, size) == [lat |-> DegC(lat), lon |-> DegC(lon), size |-> size]
\* Tycho, Copernicus, Kepler, Aristarchus, Plato, Archimedes, Eratosthenes, Ptolemaeus, Alphonsus,
\* Arzachel, Clavius, Grimaldi, Schickard, Theophilus, Langrenus, Petavius, Humboldt, Janssen
CRATERS ==
  << Feature(-4331, -1136, 85),
     Feature(962, -2008, 93),
     Feature(812, -3801, 32),
     Feature(2373, -4749, 40),
     Feature(5162, -938, 101),
     Feature(2972, -404, 83),
     Feature(1447, -1132, 59),
     Feature(-920, -180, 154),
     Feature(-1339, -278, 118),
     Feature(-1819, -188, 97),
     Feature(-5840, -1440, 231),
     Feature(-520, -6860, 172),
     Feature(-4440, -5460, 227),
     Feature(-1140, 2640, 100),
     Feature(-890, 6090, 132),
     Feature(-2530, 6040, 177),
     Feature(-2700, 8090, 207),
     Feature(-4500, 4000, 190) >>
\* Mare Tranquillitatis, Mare Serenitatis, Mare Crisium, Mare Imbrium, Oceanus Procellarum, Mare Nubium,
\* Mare Humorum, Mare Fecunditatis, Mare Nectaris, Mare Frigoris, Mare Vaporum, Sinus Medii
MARIA ==
  << Feature(850, 3140, 873),
     Feature(2800, 1750, 707),
     Feature(1700, 5910, 418),
     Feature(3280, -1560, 1145),
     Feature(1840, -5740, 2568),
     Feature(-2130, -1660, 715),
     Feature(-2440, -3860, 389),
     Feature(-780, 5130, 909),
     Feature(-1520, 3550, 333),
     Feature(5600, 140, 1596),
     Feature(1330, 360, 245),
     Feature(240, -100, 335) >>

\* RESOURCES (2624-2658): lat, lon in hundredths of a degree, radius in km
Resource(name, lat, lon, radius) ==
  [name |-> name, lat |-> DegC(lat), lon |-> DegC(lon), radius |-> radius]
RESOURCES ==
  << Resource("South Pole Water Ice", -8900, 0, 150),
     Resource("Cabeus Water Ice", -8540, -4200, 100),
     Resource("Southwest Pole Water", -8480, 8500, 120),
     Resource("Far South Pole Water", -8830, -12000, 90),
     Resource("Mare Tranquillitatis He-3", 850, 3140, 400),
     Resource("Oceanus Procellarum He-3", 1840, -5740, 800),
     Resource("Mare Imbrium He-3", 3280, -1560, 500),
     Resource("Mare Serenitatis He-3", 2800, 1750, 350),
     Resource("Mare Fecunditatis He-3", -780, 5130, 450),
     Resource("Mare Tranquillitatis Ti", 850, 3140, 300),
     Resource("Oceanus Procellarum Ti", 2300, -5100, 400),
     Resource("Mare Serenitatis Ti", 2800, 1750, 250),
     Resource("Mare Moscoviense Ti", 2730, 14790, 140),
     Resource("Oceanus Procellarum KREEP", 2600, -1500, 500),
     Resource("Mare Imbrium KREEP", 3800, -1700, 400),
     Resource("Aristarchus Plateau KREEP", 2600, -4700, 150),
     Resource("Aristarchus Pyroclastics", 2680, -5080, 40),
     Resource("Reiner Gamma Swirl", 750, -5900, 70),
     Resource("South Pole-Aitken Basin", -5000, -16500, 1200),
     Resource("Tycho Central Peak", -4331, -1136, 120),
     Resource("Copernicus Ejecta", 962, -2008, 130),
     Resource("Mare Moscoviense", 2730, 14790, 180),
     Resource("Orientale Basin Ring", -1940, -9280, 300),
     Resource("Compton-Belkovich Thorium", 6110, 9950, 50) >>

\* ------------------------------------------------------------------------
\* generateElevation (376-435), one cell; km in KmScale units
\* ------------------------------------------------------------------------
CellLat(i) == (i * Deg(180)) \div (res - 1) - Deg(90)
CellLon(j) == (j * Deg(360)) \div (res * 2 - 1) - Deg(180)

\* one mare (399-406); mareR is (mare.size / 2) / 57.3
MareDepth(factor) == -((4 * (KmScale \div Milli) * factor * factor) \div Milli)
MareShape(d, mareR) ==
  IF d < mareR THEN MareDepth(Milli - RDiv(d * Milli, mareR)) ELSE 0
MareDelta(lat, lon, mare) ==
  MareShape(haversine(lat, lon, mare.lat, mare.lon),
            RDiv(mare.size * AngDen * 10, 1146))

\* one crater (409-425); craterR is (crater.size / 2) / 111
Square(q) == (q * q) \div Milli
\* crater.size * 0.02 / 1000 * rimFactor, in km
RimHeight(size, rimFactor) ==
  (size * 2 * (KmScale \div 100000) * rimFactor) \div Milli
\* crater.size * 0.1 / 1000 * depthFactor, in km
FloorDepth(size, depthFactor) ==
  -((size * 10 * (KmScale \div 100000) * depthFactor) \div Milli)
\* mutant: the radius taken without its sign
CraterShapeAbs(d, craterR, size) ==
  IF d < Abs(craterR) * 2
    THEN IF 10 * d < Abs(craterR) * 7
           THEN FloorDepth(size, Milli - RDiv(d * 10 * Milli, 7 * Abs(craterR)))
         ELSE 0
  ELSE 0
CraterShape(d, craterR, size) ==
  IF d < craterR * 2
    THEN IF 10 * d > craterR * 7 /\ 10 * d < craterR * 13
           THEN RimHeight(size,
                  ExpNeg(Min(Milli,
                    Square(RDiv(Abs(d - craterR) * 10 * Milli, 3 * craterR)))))
         ELSE IF 10 * d < craterR * 7
           THEN FloorDepth(size, Milli - RDiv(d * 10 * Milli, 7 * craterR))
         ELSE 0
  ELSE 0
CraterDelta(lat, lon, crater) ==
  CraterShape(haversine(lat, lon, crater.lat, crater.lon),
              RDiv(crater.size * AngDen, 222), crater.size)

\* mutant: elev clipped at -8 km after each mare (elev is 2 km + the sum)
RECURSIVE SumMariaClipped(_, _, _, _)
SumMariaClipped(lat, lon, maria, n) ==
  IF n = 0 THEN 0
  ELSE Max(-10 * KmScale,
           SumMariaClipped(lat, lon, maria, n - 1)
             + MareDelta(lat, lon, maria[n]))
RECURSIVE SumMaria(_, _, _, _)
SumMaria(lat, lon, maria, n) ==
  IF n = 0 THEN 0
  ELSE SumMaria(lat, lon, maria, n - 1) + MareDelta(lat, lon, maria[n])
RECURSIVE SumCraters(_, _, _, _)
SumCraters(lat, lon, craters, n) ==
  IF n = 0 THEN 0
  ELSE SumCraters(lat, lon, craters, n - 1) + CraterDelta(lat, lon, craters[n])

\* the elevation before clamping
RawElevation(lat, lon, maria, craters) ==
  2 * KmScale
  + (IF Abs(lon) > Deg(90)
       THEN (25 * KmScale) \div 10
            + (simplex2D(lat, lon, 2) * 15 * (KmScale \div Milli)) \div 10
       ELSE 0)
  + (IF Abs(lat) > Deg(60)
       THEN RDiv((Abs(lat) - Deg(60)) * 2500, Deg(30)) * (KmScale \div Milli)
       ELSE 0)
  + SumMaria(lat, lon, maria, Len(maria))
  + SumCraters(lat, lon, craters, Len(craters))
  + ((simplex2D(lat, lon, 5) - Milli \div 2) * 5 * (KmScale \div Milli)) \div 10

\* Math.max(-8, Math.min(10, elev)) * (MOON_RADIUS / MOON_RADIUS_KM);
\* MOON_RADIUS_KM is 1737.4
ClampScale(elev) ==
  RDiv(Max(-8 * KmScale, Min(10 * KmScale, elev)) * (MOON_RADIUS \div 10),
       17374 * (KmScale \div (ElevScale * 100)))

generateElevationCell(i, j, maria, craters) ==
  ClampScale(RawElevation(CellLat(i), CellLon(j), maria, craters))

\* The array generateElevation returns is carried by the catalogs it was
\* built from; its cells are computed when read.  NULL is the unset
\* window.elevationData.
NULL == [null |-> TRUE]
generateElevation(maria, craters) == [maria |-> maria, craters |-> craters]
\* data[i][j]
Cell(data, i, j) == generateElevationCell(i, j, data.maria, data.craters)

\* ------------------------------------------------------------------------
\* getElevationAt (437-461): bilinear sample, in ElevScale units
\* ------------------------------------------------------------------------
RECURSIVE WrapLon(_)
WrapLon(lon) ==
  IF lon < -Deg(180) THEN WrapLon(lon + Deg(360))
  ELSE IF lon > Deg(180) THEN WrapLon(lon - Deg(360))
  ELSE lon

\* fi = ((lat + 90) / 180) * (res - 1) and fj = ((lon + 180) / 360) *
\* (res * 2 - 1) as exact fractions: AngDen = (res - 1) * (res * 2 - 1), so
\* fi = (lat + 90 deg) / LatStep and fj = (lon + 180 deg) / LonStep
LatStep == 180 * (res * 2 - 1)
LonStep == 360 * (res - 1)

\* the weights of opposite corners exchanged
BilinearFlipped(fx, fy, e00, e10, e01, e11) ==
  RDiv((Milli - fx) * (Milli - fy) * e11 + fx * (Milli - fy) * e01
         + (Milli - fx) * fy * e10 + fx * fy * e00,
       Milli * Milli)
\* (Milli * t + r) / Milli^2 rounded to the nearest integer as RDiv rounds,
\* for 0 <= r < Milli
RoundedMilli(t, r) ==
  IF t >= 0 THEN (t + Milli \div 2) \div Milli
  ELSE -((Milli \div 2 - t - (IF r = 0 THEN 0 ELSE 1)) \div Milli)
\* (Milli * h + l) / Milli^2, rounded
Rounded(h, l) == RoundedMilli(h + l \div Milli, l % Milli)
\* (1 - fx) (1 - fy) e00 + fx (1 - fy) e10 + (1 - fx) fy e01 + fx fy e11.
\* Each weight w, in Milli^2 units, is summed as Milli * (w \div Milli) +
\* w % Milli, which keeps the sums of a sample outside the grid (a weight
\* outside [0, 1]) within the integers of the checker; the value is that of
\* RDiv(sum of w * e, Milli * Milli).
Bilinear(fx, fy, e00, e10, e01, e11) ==
  Rounded((((Milli - fx) * (Milli - fy)) \div Milli) * e00
            + ((fx * (Milli - fy)) \div Milli) * e10
            + (((Milli - fx) * fy) \div Milli) * e01
            + ((fx * fy) \div Milli) * e11,
          (((Milli - fx) * (Milli - fy)) % Milli) * e00
            + ((fx * (Milli - fy)) % Milli) * e10
            + (((Milli - fx) * fy) % Milli) * e01
            + ((fx * fy) % Milli) * e11)

\* j0 and j1 (448, 450)
ColumnOf(lon) ==
  Max(0, Min(res * 2 - 1, (WrapLon(lon) + Deg(180)) \div LonStep))
NextColumn(j0) == Min(res * 2 - 1, j0 + 1)

\* i0 and i1 (447, 449)
RowOf(lat) == Max(0, Min(res - 1, (lat + Deg(90)) \div LatStep))
NextRow(i0) == Min(res - 1, i0 + 1)
\* fx = fi - i0 and fy = fj - j0 (452, 453), in Milli units
\* mutant: fx is measured from the row i1
RowWeightUpper(lat) ==
  ((lat + Deg(90) - NextRow(RowOf(lat)) * LatStep) * Milli) \div LatStep
RowWeight(lat) ==
  ((lat + Deg(90) - RowOf(lat) * LatStep) * Milli) \div LatStep
ColumnWeight(lon) ==
  ((WrapLon(lon) + Deg(180) - ColumnOf(lon) * LonStep) * Milli) \div LonStep

getElevationAt(lat, lon, data) ==
  IF data = NULL THEN 0
  ELSE Bilinear(RowWeight(lat), ColumnWeight(lon),
                Cell(data, RowOf(lat), ColumnOf(lon)),
                Cell(data, NextRow(RowOf(lat)), ColumnOf(lon)),
                Cell(data, RowOf(lat), NextColumn(ColumnOf(lon))),
                Cell(data, NextRow(RowOf(lat)), NextColumn(ColumnOf(lon))))

\* ------------------------------------------------------------------------
\* Strings: sequences of one-character strings
\* ------------------------------------------------------------------------
UpperCase ==
  << "A", "B", "C", "D", "E", "F", "G", "H", "I", "J", "K", "L", "M",
     "N", "O", "P", "Q", "R", "S", "T", "U", "V", "W", "X", "Y", "Z" >>
LowerCase ==
  << "a", "b", "c", "d", "e", "f", "g", "h", "i", "j", "k", "l", "m",
     "n", "o", "p", "q", "r", "s", "t", "u", "v", "w", "x", "y", "z" >>
LowerChar(c) ==
  IF \E k \in 1..26 : UpperCase[k] = c
    THEN LowerCase[CHOOSE k \in 1..26 : UpperCase[k] = c]
    ELSE c
\* String.prototype.toLowerCase
toLowerCase(str) == [k \in 1..Len(str) |-> LowerChar(str[k])]
\* String.prototype.includes
includes(str, sub) ==
  \E k \in 0..(Len(str) - Len(sub)) :
    \A m \in 1..Len(sub) : str[k + m] = sub[m]

StrOrbit == << "o", "r", "b", "i", "t" >>
StrOrbiting == << "o", "r", "b", "i", "t", "i", "n", "g" >>
StrLanded == << "l", "a", "n", "d", "e", "d" >>
StrCrashed == << "c", "r", "a", "s", "h", "e", "d" >>
StrImpactor == << "i", "m", "p", "a", "c", "t", "o", "r" >>

\* ------------------------------------------------------------------------
\* ARTIFACTS (src/main.js 2519-2586): name, lat and lon in 1/10000 degree,
\* type and status as character sequences
\* ------------------------------------------------------------------------
TypeEquipment == << "E", "q", "u", "i", "p", "m", "e", "n", "t" >>
TypeImpactor == << "I", "m", "p", "a", "c", "t", "o", "r" >>
TypeLander == << "L", "a", "n", "d", "e", "r" >>
TypeLanderRover == << "L", "a", "n", "d", "e", "r", "/", "R", "o", "v", "e", "r" >>
TypeOrbiter == << "O", "r", "b", "i", "t", "e", "r" >>
TypeProbe == << "P", "r", "o", "b", "e" >>
TypeRocketStage == << "R", "o", "c", "k", "e", "t", " ", "S", "t", "a", "g", "e" >>
TypeRover == << "R", "o", "v", "e", "r" >>
TypeSampleReturn == << "S", "a", "m", "p", "l", "e", " ", "R", "e", "t", "u", "r", "n" >>
StatusCrashed == << "C", "r", "a", "s", "h", "e", "d" >>
StatusImpactor == << "I", "m", "p", "a", "c", "t", "o", "r" >>
StatusLanded == << "L", "a", "n", "d", "e", "d" >>
StatusOrbiting == << "O", "r", "b", "i", "t", "i", "n", "g" >>
\* c / 10000 degrees in angle units, to the nearest unit
Deg4(c) == (c \div 10000) * AngDen + RDiv((c % 10000) * AngDen, 10000)
Artifact(name, lat, lon, type, status) ==
  [name |-> name, lat |-> Deg4(lat), lon |-> Deg4(lon), type |-> type,
   status |-> status]
ARTIFACTS ==
  << Artifact("Luna 2", 291000, 0, TypeImpactor, StatusImpactor),
     Artifact("Luna 2 Third Stage", 300000, 10000, TypeRocketStage, StatusCrashed),
     Artifact("Ranger 4", -155000, -1307000, TypeImpactor, StatusCrashed),
     Artifact("Ranger 6", 93580, 214800, TypeImpactor, StatusImpactor),
     Artifact("Ranger 7", -106300, -206000, TypeImpactor, StatusImpactor),
     Artifact("Luna 5", -80000, -230000, TypeProbe, StatusCrashed),
     Artifact("Luna 7", 98000, 478000, TypeProbe, StatusCrashed),
     Artifact("Luna 8", 91000, 633000, TypeProbe, StatusCrashed),
     Artifact("Ranger 8", 26380, 247870, TypeImpactor, StatusImpactor),
     Artifact("Ranger 9", -128280, -23870, TypeImpactor, StatusImpactor),
     Artifact("Luna 9", 70800, -643700, TypeLander, StatusLanded),
     Artifact("Surveyor 1", -24740, -433390, TypeLander, StatusLanded),
     Artifact("Luna 13", 188700, -620500, TypeLander, StatusLanded),
     Artifact("Surveyor 3", -30150, -234180, TypeLander, StatusLanded),
     Artifact("Surveyor 5", 14610, 231950, TypeLander, StatusLanded),
     Artifact("Surveyor 6", 4900, -14000, TypeLander, StatusLanded),
     Artifact("Surveyor 7", -408600, -114700, TypeLander, StatusLanded),
     Artifact("Apollo 11 Eagle", 6741, 234730, TypeLander, StatusLanded),
     Artifact("Apollo 11 Flag", 6734, 234731, TypeEquipment, StatusLanded),
     Artifact("Apollo 12 Intrepid", -30124, -234216, TypeLander, StatusLanded),
     Artifact("Luna 16", -5137, 563638, TypeSampleReturn, StatusLanded),
     Artifact("Luna 17/Lunokhod 1", 382378, -350000, TypeRover, StatusLanded),
     Artifact("Apollo 14 Antares", -36453, -174714, TypeLander, StatusLanded),
     Artifact("Apollo 15 Falcon", 261322, 36339, TypeLander, StatusLanded),
     Artifact("Apollo 15 Rover", 261333, 36340, TypeRover, StatusLanded),
     Artifact("Luna 20", 35700, 565500, TypeSampleReturn, StatusLanded),
     Artifact("Apollo 16 Orion", -89999, 155001, TypeLander, StatusLanded),
     Artifact("Apollo 17 Challenger", 201908, 307717, TypeLander, StatusLanded),
     Artifact("Luna 21/Lunokhod 2", 258500, 304500, TypeRover, StatusLanded),
     Artifact("Luna 23", 130000, 620000, TypeSampleReturn, StatusLanded),
     Artifact("Luna 24", 127145, 622129, TypeSampleReturn, StatusLanded),
     Artifact("Hiten", -343000, -556000, TypeOrbiter, StatusCrashed),
     Artifact("Lunar Prospector", -875000, -420000, TypeOrbiter, StatusCrashed),
     Artifact("SMART-1", -342400, -461900, TypeOrbiter, StatusCrashed),
     Artifact("SELENE/Kaguya", -655000, -804000, TypeOrbiter, StatusCrashed),
     Artifact("Chang'e 1", 15000, -523600, TypeOrbiter, StatusCrashed),
     Artifact("Chandrayaan-1 MIP", -897600, -394000, TypeImpactor, StatusImpactor),
     Artifact("LCROSS Centaur", -846750, -487250, TypeImpactor, StatusImpactor),
     Artifact("LRO", 0, 0, TypeOrbiter, StatusOrbiting),
     Artifact("GRAIL-A Ebb", 756200, -266300, TypeOrbiter, StatusCrashed),
     Artifact("GRAIL-B Flow", 756500, -266800, TypeOrbiter, StatusCrashed),
     Artifact("Chang'e 3/Yutu", 441214, -195116, TypeLanderRover, StatusLanded),
     Artifact("LADEE", 118500, -277900, TypeOrbiter, StatusCrashed),
     Artifact("Chang'e 4/Yutu-2", -454446, 1775991, TypeLanderRover, StatusLanded),
     Artifact("Beresheet", 325956, 193496, TypeLander, StatusCrashed),
     Artifact("Chandrayaan-2 Vikram", -709000, 228000, TypeLander, StatusCrashed),
     Artifact("Chang'e 5", 430576, -519163, TypeSampleReturn, StatusLanded),
     Artifact("Hakuto-R Mission 1", 475000, 438000, TypeLander, StatusCrashed),
     Artifact("Chandrayaan-3 Vikram", -693730, 323190, TypeLander, StatusLanded),
     Artifact("Chandrayaan-3 Pragyan", -693730, 323200, TypeRover, StatusLanded),
     Artifact("Luna 25", -578600, 687700, TypeLander, StatusCrashed),
     Artifact("SLIM", -133000, 252000, TypeLander, StatusLanded),
     Artifact("Odysseus (IM-1)", -801300, -14400, TypeLander, StatusLanded),
     Artifact("Chang'e 6", -416385, -1539852, TypeSampleReturn, StatusLanded),
     Artifact("Blue Ghost Mission 1", 185700, 618200, TypeLander, StatusLanded),
     Artifact("Hakuto-R M2", 550000, 14000, TypeLander, StatusCrashed),
     Artifact("IM-2 Athena", -847900, 293000, TypeLander, StatusLanded) >>

\* ------------------------------------------------------------------------
\* showTrajectory (1383-1675): the point sequence
\* ------------------------------------------------------------------------
\* earthPosition (1392-1393)
earthPosition == Vec(MOON_RADIUS * 3 * PosScale, 0, 0)

\* mutant: a landing point one scene unit above the sphere when there is
\* no elevation field
landingPosLifted(artifact, data) ==
  latLonToVector3(artifact.lat, artifact.lon,
    MOON_RADIUS * PosScale
      + (IF data # NULL
           THEN RDiv(getElevationAt(artifact.lat, artifact.lon, data)
                       * 2 * PosScale, ElevScale)
           ELSE PosScale))
\* landingPos (1414-1415): elev is 0 while window.elevationData is unset
landingPos(artifact, data) ==
  latLonToVector3(artifact.lat, artifact.lon,
    MOON_RADIUS * PosScale
      + RDiv((IF data # NULL
                THEN getElevationAt(artifact.lat, artifact.lon, data)
                ELSE 0) * 2 * PosScale,
             ElevScale))

\* status === 'orbiting' and type.includes('orbit') (1418-1421)
isCurrentlyOrbiting(artifact) == toLowerCase(artifact.status) = StrOrbiting
isOrbiter(artifact) == includes(toLowerCase(artifact.type), StrOrbit)

\* arcColor (1424-1435)
ColorOfStatus(status) ==
  IF status = StrLanded THEN "0x66ff66"
  ELSE IF status = StrCrashed THEN "0xffee55"
  ELSE IF status = StrImpactor THEN "0xff3366"
  ELSE IF status = StrOrbiting THEN "0x00ffff"
  ELSE "0xffffff"
arcColor(artifact) == ColorOfStatus(toLowerCase(artifact.status))

segments == 100
orbitSegments == 35
approachSegments == 25
descentSegments == 40

\* one coordinate of the quadratic Bezier at t = i / n:
\* (1-t)^2 * a + 2 (1-t) t * c + t^2 * b
Bezier1(a, c, b, i, n) ==
  RDiv((n - i) * (n - i) * a + 2 * (n - i) * i * c + i * i * b, n * n)
Bezier(a, c, b, i, n) ==
  Vec(Bezier1(a[1], c[1], b[1], i, n), Bezier1(a[2], c[2], b[2], i, n),
      Bezier1(a[3], c[3], b[3], i, n))
\* the control point of both Bezier arcs (1477-1481, 1560-1564): above the
\* middle of the two ends
ControlPoint(a, b) ==
  Vec((a[1] + b[1]) \div 2, MOON_RADIUS * 2 * PosScale, (a[3] + b[3]) \div 2)

\* the closed ellipse of a currently orbiting mission (1441-1450), i in 0..100
OrbitEllipse(angle, orbitRadius) ==
  Vec(RDiv(Cos(angle) * orbitRadius, TrigScale),
      RDiv(Sin(angle) * orbitRadius * 7, TrigScale * 10),
      RDiv(Sin(angle * 2) * 20 * PosScale, TrigScale))
OrbitLoopPoint(i) ==
  OrbitEllipse(RDiv(i * 2 * PI, segments), (MOON_RADIUS + 80) * PosScale)

\* a point of the orbit sphere at polar angle phi and azimuth angle
\* (1466-1470, 1510-1514)
OrbitSpherePoint(phi, angle) ==
  Spherical((MOON_RADIUS + 80) * PosScale, phi, angle)

landingPhi(artifact) == Deg(90) - artifact.lat
landingTheta(artifact) == artifact.lon + Deg(180)
orbitInsertionPoint(artifact) ==
  OrbitSpherePoint(landingPhi(artifact), landingTheta(artifact) + PI)

\* Part 1 (1472-1490), i in 0..25
ApproachArc(insertion, i) ==
  Bezier(earthPosition, ControlPoint(earthPosition, insertion), insertion, i,
         approachSegments)
ApproachPoint(artifact, i) == ApproachArc(orbitInsertionPoint(artifact), i)

\* startAngle, endAngle and the normalisation of angleSpan (1493-1504)
AngleOf(p) == Atan2(p[3], p[1])
startAngle(artifact) == AngleOf(orbitInsertionPoint(artifact))
RECURSIVE SpanUp(_)
SpanUp(a) == IF a < 0 THEN SpanUp(a + 2 * PI) ELSE a
RECURSIVE SpanDown(_)
SpanDown(a) == IF a > 2 * PI THEN SpanDown(a - 2 * PI) ELSE a
\* mutant: the longer arc is kept
ShortWayKept(span) == span
ShortWay(span) == IF span > PI THEN span - 2 * PI ELSE span
endAngle(artifact) == landingTheta(artifact) - PI \div 2
normalizeSpan(span) == ShortWay(SpanDown(SpanUp(span)))
angleSpan(artifact) ==
  normalizeSpan(endAngle(artifact) - startAngle(artifact))

\* Part 2 (1506-1518), i in 0..35
OrbitPoint(artifact, i) ==
  OrbitSpherePoint(
    landingPhi(artifact)
      + RDiv((PI \div 2 - landingPhi(artifact)) * (orbitSegments - i),
             orbitSegments),
    startAngle(artifact) + RDiv(angleSpan(artifact) * i, orbitSegments))

\* the descent point before the safety check (1526-1540), i in 1..40:
\* the point of the straight line, moved outward by bulgeFactor *
\* bulgeAmount = 4 t (1 - t) * 30
DescentBase(lastOrbitPoint, landing, i) ==
  Vec(lastOrbitPoint[1]
        + RDiv((landing[1] - lastOrbitPoint[1]) * i, descentSegments),
      lastOrbitPoint[2]
        + RDiv((landing[2] - lastOrbitPoint[2]) * i, descentSegments),
      lastOrbitPoint[3]
        + RDiv((landing[3] - lastOrbitPoint[3]) * i, descentSegments))
Add(p, q) == Vec(p[1] + q[1], p[2] + q[2], p[3] + q[3])
Bulged(base, bulge) == Add(base, ScaleTo(base, bulge))
DescentRaw(lastOrbitPoint, landing, i) ==
  Bulged(DescentBase(lastOrbitPoint, landing, i),
         RDiv(4 * i * (descentSegments - i) * 30 * PosScale,
              descentSegments * descentSegments))

\* surfaceElev and minRadius (1542-1550) under a point at (lat, lon) = g
surfaceElev(g, data) ==
  IF data # NULL
    THEN RDiv(getElevationAt(g.lat, g.lon, data) * 2 * PosScale, ElevScale)
    ELSE 0
minRadius(p, data) ==
  MOON_RADIUS * PosScale + surfaceElev(Unproject(p), data) + 3 * PosScale

\* the safety check (1552-1554)
\* mutant: the comparison of the check inverted
ClampToInverted(p, min) == IF Length(p) > min THEN ScaleTo(p, min) ELSE p
ClampTo(p, min) == IF Length(p) < min THEN ScaleTo(p, min) ELSE p
SafetyClamp(p, data) == ClampTo(p, minRadius(p, data))

\* Part 3 (1520-1557), i in 1..40
DescentPoint(lastOrbitPoint, landing, data, i) ==
  SafetyClamp(DescentRaw(lastOrbitPoint, landing, i), data)

\* the direct arc (1558-1581), i in 0..100
\* mutant: t = i / (segments + 1), which stops short of t = 1
DirectPointShort(landing, i) ==
  Bezier(earthPosition, ControlPoint(earthPosition, landing), landing, i,
         segments + 1)
DirectPoint(landing, i) ==
  Bezier(earthPosition, ControlPoint(earthPosition, landing), landing, i,
         segments)

\* curvePoints of the three branches (1438-1581)
\* mutant: the loop stops one step early (i < segments)
OrbitCurveOpen == [k \in 1..segments |-> OrbitLoopPoint(k - 1)]
OrbitCurve == [k \in 1..(segments + 1) |-> OrbitLoopPoint(k - 1)]
DescentCurve(lastOrbitPoint, landing, data) ==
  [k \in 1..descentSegments |-> DescentPoint(lastOrbitPoint, landing, data, k)]
OrbiterCurve(artifact, landing, data) ==
  [k \in 1..(approachSegments + 1) |-> ApproachPoint(artifact, k - 1)]
    \o [k \in 1..(orbitSegments + 1) |-> OrbitPoint(artifact, k - 1)]
    \o DescentCurve(OrbitPoint(artifact, orbitSegments), landing, data)
DirectCurve(landing) == [k \in 1..(segments + 1) |-> DirectPoint(landing, k - 1)]

\* mutant: the type is tested before the status
BuildTrajectoryTypeFirst(artifact, data) ==
  IF isOrbiter(artifact)
    THEN [branch |-> "orbiter",
          curvePoints |->
            OrbiterCurve(artifact, landingPos(artifact, data), data)]
  ELSE IF isCurrentlyOrbiting(artifact)
    THEN [branch |-> "orbit", curvePoints |-> OrbitCurve]
  ELSE [branch |-> "direct",
        curvePoints |-> DirectCurve(landingPos(artifact, data))]
\* curvePoints, and the branch that built them
BuildTrajectory(artifact, data) ==
  IF isCurrentlyOrbiting(artifact)
    THEN [branch |-> "orbit", curvePoints |-> OrbitCurve]
  ELSE IF isOrbiter(artifact)
    THEN [branch |-> "orbiter",
          curvePoints |->
            OrbiterCurve(artifact, landingPos(artifact, data), data)]
  ELSE [branch |-> "direct",
        curvePoints |-> DirectCurve(landingPos(artifact, data))]

\* ------------------------------------------------------------------------
\* Program state
\* ------------------------------------------------------------------------
VARIABLES
  elevationData,    \* window.elevationData (373)
  trajectoryGroup,  \* the global of line 75: 0 is null, k > 0 the group that
                    \* the k-th showTrajectory call created
  paths,            \* paths[k]: what the k-th showTrajectory call built and its
                    \* closure holds (artifact, curvePoints, animationProgress,
                    \* spacecraft)
  scene,            \* the trajectory groups among the children of the THREE
                    \* scene, as the indices of their paths
  frameRequests,    \* how many animate callbacks requestAnimationFrame holds
                    \* for the next frame
  initStep,         \* how many of the calls of init (168-192) have returned
  elevationWrites,  \* how many times window.elevationData has been assigned
  fallbacks,        \* the callers that found window.elevationData unset and
                    \* took 0 for the elevation
  geoInput,         \* the arguments of a call of the coordinate mapping or of
                    \* the elevation sampler, NULL when there is none
  geoOutput,        \* what that call returned, NULL before it returns
  labelPositions,   \* createArtifacts' labelPositions (515)
  labelOffsets,     \* labelOffsets[k]: which of the eight offsets gave
                    \* labelPositions[k], 0 for the random fallback
  missionPanel,     \* the #missionPanel element: its hidden class and its
                    \* dataset.artifactName
  state,            \* the fields of the state object (17-43) that
                    \* updateArtifactVisibility reads
  markerVisible,    \* markerVisible[i]: artifactMarkers[i].marker.visible
  labelVisible,     \* labelVisible[i]: artifactLabels[i].visible
  resourceMeshes,   \* resourceMeshes (736-745, 767, 787) by kind of entry:
                    \* whether its meshes are visible, and the
                    \* state.resourceOpacity its ring materials' opacity was
                    \* last computed from (NULL: as built)
  camera            \* camera.position (106), the animateCamera closures that
                    \* requestAnimationFrame holds, in the order of their
                    \* requests, and the targets of the fly-tos started so
                    \* far, oldest first

trajVars == <<trajectoryGroup, paths, scene>>
geoVars == <<geoInput, geoOutput>>
labelVars == <<labelPositions, labelOffsets>>
startVars == <<initStep, elevationWrites>>
searchVars == <<state, markerVisible, labelVisible>>

\* mutant: the artifacts placed before the terrain is built
initOrderArtifactsFirst ==
  << "createGrid", "createArtifacts", "createTerrain", "createPoles",
     "createResources", "bindUI", "animate" >>
\* the calls of init that build the Moon, bind the handlers and start the
\* frame loop (168-192), in the order of the code; createResources ends
\* with createFeatureMarkers (746)
initOrder ==
  << "createGrid", "createTerrain", "createPoles", "createArtifacts",
     "createResources", "bindUI", "animate" >>
\* init has returned: handlers run from then on
loaded == initStep = Len(initOrder)
\* const elev = window.elevationData ? getElevationAt(...) : 0 in caller
Sampled(caller) ==
  fallbacks' =
    IF elevationData = NULL THEN fallbacks \cup {caller} ELSE fallbacks
vars ==
  <<elevationData, trajectoryGroup, paths, scene, frameRequests, initStep,
    elevationWrites, fallbacks, geoInput, geoOutput, labelPositions,
    labelOffsets, missionPanel, state, markerVisible, labelVisible, camera,
    resourceMeshes>>

\* the panel before the first click: hidden, no artifact name stored
PanelAtLoad == [hidden |-> TRUE, artifactName |-> ""]
\* the state object's artifact switches as the script sets them (17, 21,
\* 33-40)
StateAtLoad ==
  [showLabels |-> TRUE, showArtifacts |-> TRUE, filterUS |-> TRUE, filterSovietUnion |-> TRUE,
   filterRussia |-> TRUE, filterChina |-> TRUE, filterIndia |-> TRUE,
   filterJapan |-> TRUE, filterIsrael |-> TRUE, filterEurope |-> TRUE,
   searchQuery |-> << >>,
   showWater |-> FALSE, showHelium |-> FALSE, showTitanium |-> FALSE,
   showKreep |-> FALSE, showMinerals |-> FALSE, showCraters |-> FALSE,
   showMaria |-> FALSE, resourceOpacity |-> SevenTenths]
\* the kinds of entries of resourceMeshes: the type of a deposit, or the
\* featureType of a crater or mare marker, and the switch of each kind
ShownBy ==
  [water |-> "showWater", helium |-> "showHelium",
   titanium |-> "showTitanium", kreep |-> "showKreep",
   minerals |-> "showMinerals", crater |-> "showCraters",
   mare |-> "showMaria"]
Deposits == {"water", "helium", "titanium", "kreep", "minerals"}
\* createResources and createFeatureMarkers leave every mesh invisible
\* (710-728, 764, 784), the ring materials at concentration * 0.9 and
\* concentration * 0.5 (679, 691)
MeshesAtLoad ==
  [kind \in DOMAIN ShownBy |-> [visible |-> FALSE, opacityFrom |-> NULL]]
\* a marker and a label are visible from their construction on
MarkersAtLoad == [i \in 1..Len(ARTIFACTS) |-> TRUE]

\* a new THREE.Mesh: at the origin, not rotated (its local up axis is +y)
NewSpacecraft ==
  [position |-> Vec(0, 0, 0), direction |-> Vec(0, TrigScale, 0)]

\* scene.remove(trajectoryGroup) (1679); removing null removes nothing
sceneKept == scene
sceneRemoved == scene \ {trajectoryGroup}

\* clearTrajectory (1677-1685)
clearTrajectory ==
  /\ trajectoryGroup' = 0
  /\ scene' = sceneRemoved

\* the camera as init leaves it (106): no fly-to has been started
CameraAtLoad ==
  [position |-> Vec(0, 100 * PosScale, 500 * PosScale),
   animateCamera |-> << >>,
   targets |-> << >>]
\* const duration of focusOnCoords (1844) and of the focus that ends
\* showTrajectory (1657), in milliseconds
FocusDuration == 1000
TrajectoryFocusDuration == 1500
\* t * (2 - t) for t = Math.min(1, elapsed / duration), in thousandths
\* (1848-1850)
eased(elapsed, duration) ==
  (Min(Milli, (elapsed * Milli) \div duration)
     * (2 * Milli - Min(Milli, (elapsed * Milli) \div duration))) \div Milli
\* Vector3.lerpVectors: v1 + (v2 - v1) * alpha, alpha in thousandths
lerpVectors(v1, v2, alpha) ==
  Vec(v1[1] + RDiv((v2[1] - v1[1]) * alpha, Milli),
      v1[2] + RDiv((v2[2] - v1[2]) * alpha, Milli),
      v1[3] + RDiv((v2[3] - v1[3]) * alpha, Milli))
\* one call of an animateCamera closure c (1847-1858, 1660-1671); elapsed
\* is Date.now() - startTime.  The closure writes camera.position and, while
\* t < 1, requests itself again.
animateCamera(cam, c) ==
  [cam EXCEPT
     !.position = lerpVectors(c.start, c.end, eased(c.elapsed, c.duration)),
     !.animateCamera = IF c.elapsed < c.duration THEN Append(@, c) ELSE @]
\* the closures that were requested for a frame, called in the order of
\* their requests, dt after the frame before
RECURSIVE RunCamera(_, _, _)
RunCamera(cam, requested, dt) ==
  IF requested = << >> THEN cam
  ELSE RunCamera(animateCamera(cam, [Head(requested) EXCEPT
                                       !.elapsed = @ + dt]),
                 Tail(requested), dt)
CameraFrame(cam, dt) ==
  RunCamera([cam EXCEPT !.animateCamera = << >>], cam.animateCamera, dt)
\* a fly-to from where the camera is to end: the closure is made and
\* called at once (1842-1860, 1655-1673).  Nothing stops the closures that
\* are already running.
startCamera(cam, end, duration) ==
  animateCamera([cam EXCEPT !.targets = Append(@, end)],
                [start |-> cam.position, end |-> end,
                 duration |-> duration, elapsed |-> 0])
\* focusOnCoords (1838-1861)
focusOnCoords(lat, lon) ==
  camera' = startCamera(camera,
                        latLonToVector3(lat, lon, (MOON_RADIUS + 300) * PosScale),
                        FocusDuration)
\* the camera focus that ends showTrajectory (1646-1674)
focusPos(curvePoints) ==
  Add(curvePoints[Len(curvePoints) \div 2 + 1],
      Vec(200 * PosScale, 200 * PosScale, 200 * PosScale))
focusOnTrajectory(artifact, curvePoints) ==
  camera' = IF isCurrentlyOrbiting(artifact) THEN camera
            ELSE startCamera(camera, focusPos(curvePoints),
                             TrajectoryFocusDuration)

\* what one showTrajectory call leaves in its closure
NewPath(artifact, built) ==
  [artifact |-> artifact,
   branch |-> built.branch,
   curvePoints |-> built.curvePoints,
   arcColor |-> arcColor(artifact),
   animationProgress |-> 0,
   spacecraft |-> NewSpacecraft]

\* showTrajectory (1383-1675).  clearTrajectory() runs first; the new group
\* then takes its place in the global.
showBuilt(artifact, built) ==
  /\ paths' = Append(paths, NewPath(artifact, built))
  /\ trajectoryGroup' = Len(paths) + 1
  /\ scene' = sceneRemoved \cup {Len(paths) + 1}
  /\ Sampled("showTrajectory")
  /\ focusOnTrajectory(artifact, built.curvePoints)
showTrajectory(artifact) ==
  showBuilt(artifact, BuildTrajectory(artifact, elevationData))

\* ------------------------------------------------------------------------
\* SpecTraj: showTrajectory as a function of the mission, called once on
\* the elevation field createTerrain stored
\* ------------------------------------------------------------------------
\* missions beside the catalog's: other spellings and combinations of type
\* and status, at NumExtraLats x NumExtraLons places
NumExtraLats == 2
NumExtraLons == 3
ExtraLats == << -700000, 450000, 100000, -200000 >>
ExtraLons == << -1200000, 600000, 1500000, -300000, 0 >>
TypeLunarORBITER ==
  << "L", "u", "n", "a", "r", " ", "O", "R", "B", "I", "T", "E", "R" >>
StatusORBITING == << "O", "R", "B", "I", "T", "I", "N", "G" >>
StatusInOrbit == << "I", "n", " ", "o", "r", "b", "i", "t" >>
StatusDeorbited == << "D", "e", "o", "r", "b", "i", "t", "e", "d" >>
ExtraKinds ==
  { <<TypeLunarORBITER, StatusInOrbit>>, <<TypeProbe, StatusORBITING>>,
    <<TypeOrbiter, StatusORBITING>>, <<TypeLander, StatusInOrbit>>,
    <<TypeRover, StrOrbiting>>, <<TypeImpactor, StatusOrbiting>>,
    <<TypeSampleReturn, StatusDeorbited>>, <<TypeEquipment, StrLanded>> }
ExtraMissions ==
  { Artifact("extra", ExtraLats[a], ExtraLons[b], k[1], k[2]) :
      a \in 1..Min(NumExtraLats, Len(ExtraLats)),
      b \in 1..Min(NumExtraLons, Len(ExtraLons)),
      k \in ExtraKinds }
Missions == { ARTIFACTS[k] : k \in 1..Len(ARTIFACTS) } \cup ExtraMissions

InitTraj ==
  /\ elevationData = generateElevation(MARIA, CRATERS)
  /\ trajectoryGroup = 0
  /\ paths = << >>
  /\ scene = {}
  /\ frameRequests = 1
  /\ initStep = Len(initOrder)
  /\ elevationWrites = 1
  /\ fallbacks = {}
  /\ geoInput = NULL
  /\ geoOutput = NULL
  /\ labelPositions = << >>
  /\ labelOffsets = << >>
  /\ missionPanel = PanelAtLoad
  /\ state = StateAtLoad
  /\ markerVisible = MarkersAtLoad
  /\ labelVisible = MarkersAtLoad
  /\ camera = CameraAtLoad
  /\ resourceMeshes = MeshesAtLoad

ShowOnce ==
  \E artifact \in Missions :
    /\ paths = << >>
    /\ showTrajectory(artifact)
    /\ UNCHANGED searchVars
    /\ UNCHANGED resourceMeshes
    /\ UNCHANGED <<elevationData, frameRequests, startVars, geoVars, labelVars,
                   missionPanel>>

NextTraj == ShowOnce
SpecTraj == InitTraj /\ [][NextTraj]_vars

\* ------------------------------------------------------------------------
\* SpecBare: showTrajectory as a function of the mission, called once
\* while window.elevationData is unset
\* ------------------------------------------------------------------------
InitBare ==
  /\ elevationData = NULL
  /\ trajectoryGroup = 0
  /\ paths = << >>
  /\ scene = {}
  /\ frameRequests = 1
  /\ initStep = Len(initOrder)
  /\ elevationWrites = 0
  /\ fallbacks = {}
  /\ geoInput = NULL
  /\ geoOutput = NULL
  /\ labelPositions = << >>
  /\ labelOffsets = << >>
  /\ missionPanel = PanelAtLoad
  /\ state = StateAtLoad
  /\ markerVisible = MarkersAtLoad
  /\ labelVisible = MarkersAtLoad
  /\ camera = CameraAtLoad
  /\ resourceMeshes = MeshesAtLoad

NextBare == ShowOnce
SpecBare == InitBare /\ [][NextBare]_vars

\* ------------------------------------------------------------------------
\* SpecGeo: the coordinate mapping and the elevation sampler as functions of
\* their arguments, on the elevation field createTerrain stored
\* ------------------------------------------------------------------------
\* latLonToVector3 followed by the inverse of createTerrain (289-291)
NumProjectLats == 5
NumProjectLons == 6
ProjectLats == << -800000, -343000, 0, 291000, 600000, 800000, 450000 >>
ProjectLons ==
  << -1790000, -900000, -556000, 0, 450000, 1000000, 1790000, 1350000 >>
ProjectRadii == { MOON_RADIUS * PosScale, (MOON_RADIUS + 12) * PosScale,
                  3 * MOON_RADIUS * PosScale }
ProjectInputs ==
  { [op |-> "project", lat |-> Deg4(ProjectLats[a]), lon |-> Deg4(ProjectLons[b]),
     radius |-> r] :
      a \in 1..Min(NumProjectLats, Len(ProjectLats)),
      b \in 1..Min(NumProjectLons, Len(ProjectLons)),
      r \in ProjectRadii }

\* getElevationAt at the vertex of cell (i, j): every column of some rows
\* and every row of some columns, the first and the last always
NumVertexRows == 1
NumVertexCols == 1
VertexRows == {(k * 17) % res : k \in 0..NumVertexRows} \cup {res - 1}
VertexCols == {(k * 37) % (res * 2) : k \in 0..NumVertexCols} \cup {res * 2 - 1}
VertexInputs ==
  { [op |-> "vertex", i |-> i, j |-> j] :
      i \in 0..(res - 1), j \in VertexCols }
    \cup { [op |-> "vertex", i |-> i, j |-> j] :
             i \in VertexRows, j \in 0..(res * 2 - 1) }

\* getElevationAt at both ends of the longitude range: at the latitude of
\* every row and NumSeamSteps - 1 latitudes between two rows
NumSeamSteps == 2
SeamInputs ==
  { [op |-> "seam", lat |-> CellLat(i) + (s * LatStep) \div NumSeamSteps] :
      i \in 0..(res - 2), s \in 0..(NumSeamSteps - 1) }
    \cup { [op |-> "seam", lat |-> Deg(90)] }

\* getElevationAt at longitudes on, next to and between the ends of the
\* range, and up to NumWrapTurns turns away from them
NumWrapTurns == 2
WrapBases ==
  { -Deg(180), 1 - Deg(180), -Deg(90), 0, Deg(90) + 7, Deg(180) - 1, Deg(180) }
WrapInputs ==
  { [op |-> "wrap", lat |-> Deg(10), lon |-> base + turn * Deg(360)] :
      base \in WrapBases, turn \in (-NumWrapTurns)..NumWrapTurns }

\* getElevationAt at latitudes from pole to pole, on and between the rows,
\* and at the longitudes of WrapInputs
WeightLats ==
  { -Deg(90), 1 - Deg(90), CellLat(1) - 1, CellLat(1), Deg4(2330), Deg(10),
    CellLat(res - 2) + 1, Deg(90) - 1, Deg(90) }
WeightInputs ==
  { [op |-> "weights", lat |-> lat, lon |-> base + turn * Deg(360)] :
      lat \in WeightLats, base \in WrapBases,
      turn \in (-NumWrapTurns)..NumWrapTurns }

\* startAngle, endAngle and the normalized angleSpan of an orbiter landed
\* at NumSweepLons + 1 longitudes from -180 to 180 degrees and at latitudes
\* from pole to pole
NumSweepLons == 24
SweepLats == { -Deg(90), Deg4(-875000), -Deg(45), 0, Deg4(2330), Deg(90) }
SweepInputs ==
  { [op |-> "sweep", lat |-> lat,
     lon |-> (Deg(360) * k) \div NumSweepLons - Deg(180)] :
      lat \in SweepLats, k \in 0..NumSweepLons }

InitGeo ==
  /\ elevationData = generateElevation(MARIA, CRATERS)
  /\ trajectoryGroup = 0
  /\ paths = << >>
  /\ scene = {}
  /\ frameRequests = 1
  /\ initStep = Len(initOrder)
  /\ elevationWrites = 1
  /\ fallbacks = {}
  /\ geoInput \in ProjectInputs \cup VertexInputs \cup SeamInputs \cup WrapInputs
                 \cup SweepInputs \cup WeightInputs
  /\ geoOutput = NULL
  /\ labelPositions = << >>
  /\ labelOffsets = << >>
  /\ missionPanel = PanelAtLoad
  /\ state = StateAtLoad
  /\ markerVisible = MarkersAtLoad
  /\ labelVisible = MarkersAtLoad
  /\ camera = CameraAtLoad
  /\ resourceMeshes = MeshesAtLoad

\* p = latLonToVector3(lat, lon, radius), then the (lat, lon) of p
RoundTrip ==
  /\ geoOutput = NULL
  /\ geoInput.op = "project"
  /\ geoOutput' =
       Unproject(latLonToVector3(geoInput.lat, geoInput.lon, geoInput.radius))
  /\ UNCHANGED searchVars
  /\ UNCHANGED resourceMeshes
  /\ UNCHANGED camera
  /\ UNCHANGED <<elevationData, frameRequests, startVars, fallbacks, trajVars,
                 geoInput, labelVars, missionPanel>>

\* data[i][j] and getElevationAt at the lat and lon generateElevation gave
\* the cell (380-384)
SampleVertex ==
  /\ geoOutput = NULL
  /\ geoInput.op = "vertex"
  /\ geoOutput' =
       [stored |-> Cell(elevationData, geoInput.i, geoInput.j),
        sampled |-> getElevationAt(CellLat(geoInput.i), CellLon(geoInput.j),
                                   elevationData)]
  /\ UNCHANGED searchVars
  /\ UNCHANGED resourceMeshes
  /\ UNCHANGED camera
  /\ UNCHANGED <<elevationData, frameRequests, startVars, fallbacks, trajVars,
                 geoInput, labelVars, missionPanel>>

\* getElevationAt(lat, 180, data) and getElevationAt(lat, -180, data)
SampleSeam ==
  /\ geoOutput = NULL
  /\ geoInput.op = "seam"
  /\ geoOutput' =
       [east |-> getElevationAt(geoInput.lat, Deg(180), elevationData),
        west |-> getElevationAt(geoInput.lat, -Deg(180), elevationData)]
  /\ UNCHANGED searchVars
  /\ UNCHANGED resourceMeshes
  /\ UNCHANGED camera
  /\ UNCHANGED <<elevationData, frameRequests, startVars, fallbacks, trajVars,
                 geoInput, labelVars, missionPanel>>

\* getElevationAt(lat, lon, data): the longitude after the two loops (441,
\* 442), the columns read and the value returned
SampleWrapped ==
  /\ geoOutput = NULL
  /\ geoInput.op = "wrap"
  /\ geoOutput' =
       [lon |-> WrapLon(geoInput.lon),
        j0 |-> ColumnOf(geoInput.lon),
        j1 |-> NextColumn(ColumnOf(geoInput.lon)),
        sampled |-> getElevationAt(geoInput.lat, geoInput.lon, elevationData)]
  /\ UNCHANGED searchVars
  /\ UNCHANGED resourceMeshes
  /\ UNCHANGED camera
  /\ UNCHANGED <<elevationData, frameRequests, startVars, fallbacks, trajVars,
                 geoInput, labelVars, missionPanel>>

\* Math.atan2 of the insertion point: at a pole both arguments are zeros,
\* whose signs decide between 0, pi and -pi
StartAngles(p) == IF p[1] = 0 /\ p[3] = 0 THEN {-PI, 0, PI} ELSE {AngleOf(p)}
SweepSpan ==
  /\ geoOutput = NULL
  /\ geoInput.op = "sweep"
  /\ \E start \in StartAngles(orbitInsertionPoint(geoInput)) :
       geoOutput' =
         [startAngle |-> start, endAngle |-> endAngle(geoInput),
          angleSpan |-> normalizeSpan(endAngle(geoInput) - start)]
  /\ UNCHANGED searchVars
  /\ UNCHANGED resourceMeshes
  /\ UNCHANGED camera
  /\ UNCHANGED <<elevationData, frameRequests, startVars, fallbacks, trajVars,
                 geoInput, labelVars, missionPanel>>

\* getElevationAt(lat, lon, data): fx, fy, the four cells read and the value
\* returned
SampleWeights ==
  /\ geoOutput = NULL
  /\ geoInput.op = "weights"
  /\ geoOutput' =
       [fx |-> RowWeight(geoInput.lat),
        fy |-> ColumnWeight(geoInput.lon),
        e00 |-> Cell(elevationData, RowOf(geoInput.lat),
                     ColumnOf(geoInput.lon)),
        e10 |-> Cell(elevationData, NextRow(RowOf(geoInput.lat)),
                     ColumnOf(geoInput.lon)),
        e01 |-> Cell(elevationData, RowOf(geoInput.lat),
                     NextColumn(ColumnOf(geoInput.lon))),
        e11 |-> Cell(elevationData, NextRow(RowOf(geoInput.lat)),
                     NextColumn(ColumnOf(geoInput.lon))),
        sampled |-> getElevationAt(geoInput.lat, geoInput.lon, elevationData)]
  /\ UNCHANGED searchVars
  /\ UNCHANGED resourceMeshes
  /\ UNCHANGED camera
  /\ UNCHANGED <<elevationData, frameRequests, startVars, fallbacks, trajVars,
                 geoInput, labelVars, missionPanel>>

NextGeo ==
  \/ RoundTrip
  \/ SampleVertex
  \/ SampleSeam
  \/ SampleWrapped
  \/ SweepSpan
  \/ SampleWeights
SpecGeo == InitGeo /\ [][NextGeo]_vars

\* ------------------------------------------------------------------------
\* SpecRes: the ring loop of createResources (648-671), one iteration at a
\* time, on the elevation field createTerrain stored
\* ------------------------------------------------------------------------
ringSegments == 64
\* resource.radius / 111 / Math.max(0.1, Math.cos(resource.lat * PI / 180))
\* (653), in angle units
radiusDeg(resource) ==
  (RDiv(resource.radius * AngDen, 111) * TrigScale)
    \div Max(TrigScale \div 10, Cos(resource.lat))
\* (i / 64) * Math.PI * 2 (659)
ringAngle(i) == RDiv(i * Deg(360), ringSegments)
\* one point of a ring (660-663, 667-670): where the elevation is sampled
\* and where the point is put
RingPointAt(lat, lon, data) ==
  [lat |-> lat, lon |-> lon,
   pos |->
     latLonToVector3(lat, lon,
       (MOON_RADIUS + 3) * PosScale
         + RDiv((IF data # NULL THEN getElevationAt(lat, lon, data) ELSE 0)
                  * 2 * PosScale, ElevScale))]
RingPoint(resource, radius, angle, data) ==
  RingPointAt(resource.lat + (radius * Sin(angle)) \div TrigScale,
              resource.lon + (radius * Cos(angle)) \div TrigScale, data)

\* NumRingSteps + 1 iterations of the loop of every resource, from the
\* first to the last
NumRingSteps == 16
RingInputs ==
  { [op |-> "ring", k |-> k, i |-> (n * ringSegments) \div NumRingSteps] :
      k \in 1..Len(RESOURCES), n \in 0..NumRingSteps }

InitRes ==
  /\ elevationData = generateElevation(MARIA, CRATERS)
  /\ trajectoryGroup = 0
  /\ paths = << >>
  /\ scene = {}
  /\ frameRequests = 0
  /\ initStep = Len(initOrder)
  /\ elevationWrites = 1
  /\ fallbacks = {}
  /\ geoInput \in RingInputs
  /\ geoOutput = NULL
  /\ labelPositions = << >>
  /\ labelOffsets = << >>
  /\ missionPanel = PanelAtLoad
  /\ state = StateAtLoad
  /\ markerVisible = MarkersAtLoad
  /\ labelVisible = MarkersAtLoad
  /\ camera = CameraAtLoad
  /\ resourceMeshes = MeshesAtLoad

\* iteration i of the loop for the resource: the outer point and the inner
\* point, at 70% of the radius
RingStep(resource, radius, angle) ==
  geoOutput' =
    [outer |-> RingPoint(resource, radius, angle, elevationData),
     inner |-> RingPoint(resource, (radius * 7) \div 10, angle, elevationData)]
SampleRing ==
  /\ geoOutput = NULL
  /\ geoInput.op = "ring"
  /\ RingStep(RESOURCES[geoInput.k], radiusDeg(RESOURCES[geoInput.k]),
              ringAngle(geoInput.i))
  /\ UNCHANGED searchVars
  /\ UNCHANGED resourceMeshes
  /\ UNCHANGED camera
  /\ UNCHANGED <<elevationData, frameRequests, startVars, fallbacks, trajVars,
                 geoInput, labelVars, missionPanel>>

NextRes == SampleRing
SpecRes == InitRes /\ [][NextRes]_vars

\* ------------------------------------------------------------------------
\* SpecElev: generateElevation as a function of the catalogs of basins and
\* craters, read cell by cell
\* ------------------------------------------------------------------------
\* a basin or crater centred on the vertex of cell (i, j)
FeatureAt(i, j, size) == [lat |-> CellLat(i), lon |-> CellLon(j), size |-> size]
MidRow == res \div 2
MidCol == res
\* NumStacked basins, each 4 km deep at its centre, on the vertex of cell
\* (0, 0)
NumStacked == 5
StackedMaria == [k \in 1..NumStacked |-> FeatureAt(0, 0, 2000)]
\* NumRims craters of 3300 km whose rims, craterR = (size / 2) / 111 degrees
\* from their centres, pass over the north pole
NumRims == 56
RimCraters ==
  [k \in 1..NumRims |->
     [lat |-> Deg(90) - RDiv(3300 * AngDen, 222),
      lon |-> Deg(((7 * k) % 360) - 180), size |-> 3300]]
\* records of size zero and of negative size, some centred on a vertex
DegenerateMaria ==
  << FeatureAt(0, 0, 0), FeatureAt(MidRow, MidCol, 0),
     FeatureAt(MidRow, MidCol, -500), Feature(850, 3140, -873) >>
DegenerateCraters ==
  << FeatureAt(0, 0, 0), FeatureAt(MidRow, MidCol, 0),
     FeatureAt(MidRow, MidCol, -2000), Feature(-4331, -1136, -85) >>
Catalogs ==
  << [maria |-> MARIA, craters |-> CRATERS],
     [maria |-> MARIA \o StackedMaria, craters |-> CRATERS \o RimCraters],
     [maria |-> MARIA \o DegenerateMaria,
      craters |-> CRATERS \o DegenerateCraters],
     [maria |-> << >>, craters |-> << >>] >>
\* the cells read: NumCellRows + 1 rows and NumCellCols + 1 columns from the
\* first to the last, and the middle cell
NumCellRows == 8
NumCellCols == 10
CellRows == { (k * (res - 1)) \div NumCellRows : k \in 0..NumCellRows }
CellCols == { (k * (res * 2 - 1)) \div NumCellCols : k \in 0..NumCellCols }
CellInputs ==
  { [op |-> "cell", i |-> i, j |-> j, catalog |-> c] :
      i \in CellRows \cup {MidRow}, j \in CellCols \cup {MidCol},
      c \in 1..Len(Catalogs) }

InitElev ==
  /\ elevationData = NULL
  /\ trajectoryGroup = 0
  /\ paths = << >>
  /\ scene = {}
  /\ frameRequests = 0
  /\ initStep = 1
  /\ elevationWrites = 0
  /\ fallbacks = {}
  /\ geoInput \in CellInputs
  /\ geoOutput = NULL
  /\ labelPositions = << >>
  /\ labelOffsets = << >>
  /\ missionPanel = PanelAtLoad
  /\ state = StateAtLoad
  /\ markerVisible = MarkersAtLoad
  /\ labelVisible = MarkersAtLoad
  /\ camera = CameraAtLoad
  /\ resourceMeshes = MeshesAtLoad

\* createTerrain's const elevationData = generateElevation() and
\* window.elevationData = elevationData (276, 373), and the cell read
Built(data) ==
  /\ elevationData' = data
  /\ elevationWrites' = elevationWrites + 1
  /\ initStep' = initStep + 1
  /\ geoOutput' = [stored |-> Cell(data, geoInput.i, geoInput.j)]
BuildField ==
  /\ elevationData = NULL
  /\ geoInput.op = "cell"
  /\ Built(generateElevation(Catalogs[geoInput.catalog].maria,
                             Catalogs[geoInput.catalog].craters))
  /\ UNCHANGED searchVars
  /\ UNCHANGED resourceMeshes
  /\ UNCHANGED camera
  /\ UNCHANGED <<frameRequests, fallbacks, trajVars, geoInput, labelVars,
                 missionPanel>>

NextElev == BuildField
SpecElev == InitElev /\ [][NextElev]_vars

\* ------------------------------------------------------------------------
\* SpecLabel: the pass of createArtifacts (513-558) over the catalog, one
\* artifact a step
\* ------------------------------------------------------------------------
\* mutant: the last candidate far to the right
offsetsSpread ==
  << Vec(0, 12 * PosScale, 0),
     Vec(15 * PosScale, 8 * PosScale, 0),
     Vec(-15 * PosScale, 8 * PosScale, 0),
     Vec(0, 20 * PosScale, 0),
     Vec(20 * PosScale, 12 * PosScale, 0),
     Vec(-20 * PosScale, 12 * PosScale, 0),
     Vec(0, 28 * PosScale, 0),
     Vec(45 * PosScale, 20 * PosScale, 0) >>
\* const offsets (562-571)
offsets ==
  << Vec(0, 12 * PosScale, 0),
     Vec(15 * PosScale, 8 * PosScale, 0),
     Vec(-15 * PosScale, 8 * PosScale, 0),
     Vec(0, 20 * PosScale, 0),
     Vec(20 * PosScale, 12 * PosScale, 0),
     Vec(-20 * PosScale, 12 * PosScale, 0),
     Vec(0, 28 * PosScale, 0),
     Vec(15 * PosScale, 20 * PosScale, 0) >>
minDistance == 30

\* only the label placed last is looked at
isClearOfLatest(testPos, existingPositions) ==
  \A k \in {Len(existingPositions)} \ {0} :
    ~ (DistSq(testPos, existingPositions[k])
         < (minDistance * PosScale) * (minDistance * PosScale))
\* testPos.distanceTo(existing) < minDistance for no existing position
isClear(testPos, existingPositions) ==
  \A k \in 1..Len(existingPositions) :
    ~ (DistSq(testPos, existingPositions[k])
         < (minDistance * PosScale) * (minDistance * PosScale))

\* the loop over the offsets (575-594): the index of the offset it returns
\* with, 0 when it runs to its end
RECURSIVE FirstClear(_, _, _)
FirstClear(basePos, existingPositions, k) ==
  IF k > Len(offsets) THEN 0
  ELSE IF isClear(Add(basePos, offsets[k]), existingPositions) THEN k
  ELSE FirstClear(basePos, existingPositions, k + 1)

\* three values of Math.random(), in thousandths; the first draw gives the
\* position of offset 1, the fourth that of offset 8
NumRandomDraws == 3
RandomDraws ==
  << <<500, 0, 500>>, <<0, 999, 0>>, <<999, 250, 900>>, <<875, 400, 500>>,
     <<250, 750, 100>> >>
\* mutant: the horizontal jitter doubled
RandomOffsetWide(draw) ==
  Vec(((draw[1] - 500) * 80 * PosScale) \div Milli,
      12 * PosScale + (draw[2] * 20 * PosScale) \div Milli,
      ((draw[3] - 500) * 80 * PosScale) \div Milli)
\* the default with a random offset (597-601)
RandomOffset(draw) ==
  Vec(((draw[1] - 500) * 40 * PosScale) \div Milli,
      12 * PosScale + (draw[2] * 20 * PosScale) \div Milli,
      ((draw[3] - 500) * 40 * PosScale) \div Milli)

LabelAt(basePos, k, draw) ==
  IF k > 0 THEN Add(basePos, offsets[k]) ELSE Add(basePos, RandomOffset(draw))
findLabelPosition(basePos, existingPositions, draw) ==
  LabelAt(basePos, FirstClear(basePos, existingPositions, 1), draw)

\* pos, the marker's position (529-530)
MarkerRadius(elev) ==
  (MOON_RADIUS + 12) * PosScale + RDiv(elev * 2 * PosScale, ElevScale)
MarkerPos(artifact, data) ==
  latLonToVector3(artifact.lat, artifact.lon,
                  MarkerRadius(getElevationAt(artifact.lat, artifact.lon, data)))

\* the pass stops after MaxLabels artifacts
MaxLabels == 18

InitLabel ==
  /\ elevationData = generateElevation(MARIA, CRATERS)
  /\ trajectoryGroup = 0
  /\ paths = << >>
  /\ scene = {}
  /\ frameRequests = 1
  /\ initStep = Len(initOrder)
  /\ elevationWrites = 1
  /\ fallbacks = {}
  /\ geoInput = NULL
  /\ geoOutput = NULL
  /\ labelPositions = << >>
  /\ labelOffsets = << >>
  /\ missionPanel = PanelAtLoad
  /\ state = StateAtLoad
  /\ markerVisible = MarkersAtLoad
  /\ labelVisible = MarkersAtLoad
  /\ camera = CameraAtLoad
  /\ resourceMeshes = MeshesAtLoad

\* one turn of the loop of createArtifacts, for the artifact after the ones
\* already labelled (551-553)
PlaceAt(pos, draw) ==
  /\ labelPositions' =
       Append(labelPositions, findLabelPosition(pos, labelPositions, draw))
  /\ labelOffsets' = Append(labelOffsets, FirstClear(pos, labelPositions, 1))
PlaceLabel ==
  /\ Len(labelPositions) < Min(MaxLabels, Len(ARTIFACTS))
  /\ \E d \in 1..Min(NumRandomDraws, Len(RandomDraws)) :
       PlaceAt(MarkerPos(ARTIFACTS[Len(labelPositions) + 1], elevationData),
               RandomDraws[d])
  /\ UNCHANGED searchVars
  /\ UNCHANGED resourceMeshes
  /\ UNCHANGED camera
  /\ UNCHANGED <<elevationData, frameRequests, startVars, fallbacks, trajVars,
                 geoVars, missionPanel>>

NextLabel == PlaceLabel
SpecLabel == InitLabel /\ [][NextLabel]_vars

\* ------------------------------------------------------------------------
\* SpecColocated: the pass of createArtifacts over catalogs of three
\* artifacts of which two or all three are at one place
\* ------------------------------------------------------------------------
\* the places are those of the first NumAnchors artifacts
NumAnchors == 4
ColocatedCatalogs ==
  { <<ARTIFACTS[a], ARTIFACTS[b], ARTIFACTS[c]>> :
      a, b, c \in 1..Min(NumAnchors, Len(ARTIFACTS)) }
ColocatedInputs ==
  { [op |-> "colocated", catalog |-> catalog] :
      catalog \in { s \in ColocatedCatalogs :
                      s[1] = s[2] \/ s[1] = s[3] \/ s[2] = s[3] } }
InitColocated ==
  /\ elevationData = generateElevation(MARIA, CRATERS)
  /\ trajectoryGroup = 0
  /\ paths = << >>
  /\ scene = {}
  /\ frameRequests = 1
  /\ initStep = Len(initOrder)
  /\ elevationWrites = 1
  /\ fallbacks = {}
  /\ geoInput \in ColocatedInputs
  /\ geoOutput = NULL
  /\ labelPositions = << >>
  /\ labelOffsets = << >>
  /\ missionPanel = PanelAtLoad
  /\ state = StateAtLoad
  /\ markerVisible = MarkersAtLoad
  /\ labelVisible = MarkersAtLoad
  /\ camera = CameraAtLoad
  /\ resourceMeshes = MeshesAtLoad
\* one turn of the loop of createArtifacts (517-557) over the catalog
PlaceColocated ==
  /\ Len(labelPositions) < Len(geoInput.catalog)
  /\ \E d \in 1..Min(NumRandomDraws, Len(RandomDraws)) :
       PlaceAt(MarkerPos(geoInput.catalog[Len(labelPositions) + 1],
                         elevationData),
               RandomDraws[d])
  /\ UNCHANGED searchVars
  /\ UNCHANGED resourceMeshes
  /\ UNCHANGED camera
  /\ UNCHANGED <<elevationData, frameRequests, startVars, fallbacks, trajVars,
                 geoVars, missionPanel>>
NextColocated == PlaceColocated
SpecColocated == InitColocated /\ [][NextColocated]_vars

\* ------------------------------------------------------------------------
\* Spec: the mission panel, the trajectory it shows and the animation loop
\* ------------------------------------------------------------------------
animationSpeed == 3

NextProgressUnbounded(animationProgress) == animationProgress + animationSpeed
\* animationProgress += animationSpeed; if (animationProgress > 1)
\* animationProgress = 0 (1623-1624), in thousandths
NextProgress(animationProgress) ==
  IF animationProgress + animationSpeed > Milli THEN 0
  ELSE animationProgress + animationSpeed
\* Math.floor(animationProgress * (curvePoints.length - 1)) (1626)
PointIndex(animationProgress, length) ==
  (animationProgress * (length - 1)) \div Milli
Sub(p, q) == Vec(p[1] - q[1], p[2] - q[2], p[3] - q[3])
\* the marker copies currentPoint and turns its up axis along nextPoint -
\* currentPoint, normalized (1627-1634); points are 0-based in the code
MarkerAt(curvePoints, pointIndex) ==
  [position |-> curvePoints[pointIndex + 1],
   direction |->
     ScaleTo(Sub(curvePoints[Min(pointIndex + 1, Len(curvePoints) - 1) + 1],
                 curvePoints[pointIndex + 1]),
             TrigScale)]
Stepped(path, animationProgress) ==
  [path EXCEPT
     !.animationProgress = animationProgress,
     !.spacecraft =
       MarkerAt(path.curvePoints,
                PointIndex(animationProgress, Len(path.curvePoints)))]
\* animateSpacecraft (1620-1638), the closure of one showTrajectory call,
\* run while the global trajectoryGroup is group: the guard of line 1621
\* reads the global, and the closure's spacecraft is never null
animateSpacecraft(path, group) ==
  IF group = 0 THEN path
  ELSE Stepped(path, NextProgress(path.animationProgress))

\* ARTIFACTS.find(a => a.name === artifactName) (1981): the index of the
\* first artifact of that name, 0 when there is none
RECURSIVE FindByName(_, _)
FindByName(artifactName, k) ==
  IF k > Len(ARTIFACTS) THEN 0
  ELSE IF ARTIFACTS[k].name = artifactName THEN k
  ELSE FindByName(artifactName, k + 1)

\* the markers the user clicks
ClickedNames == {"Luna 2", "LRO"}
\* at most MaxPaths trajectories are shown and at most MaxFrames frames
\* are drawn of each
MaxPaths == 2
MaxFrames == 3

Init ==
  /\ elevationData = NULL
  /\ trajectoryGroup = 0
  /\ paths = << >>
  /\ scene = {}
  /\ frameRequests = 0
  /\ initStep = 0
  /\ elevationWrites = 0
  /\ fallbacks = {}
  /\ geoInput = NULL
  /\ geoOutput = NULL
  /\ labelPositions = << >>
  /\ labelOffsets = << >>
  /\ missionPanel = PanelAtLoad
  /\ state = StateAtLoad
  /\ markerVisible = MarkersAtLoad
  /\ labelVisible = MarkersAtLoad
  /\ camera = CameraAtLoad
  /\ resourceMeshes = MeshesAtLoad

\* one call of init.  createTerrain builds the field and stores it in
\* window.elevationData (276, 373); createArtifacts (529) and
\* createResources with createFeatureMarkers (662, 669, 699, 752, 772) read
\* it for their elevations; animate requests the first frame (2316).  The
\* handlers that bindUI and the listeners bind run after init has returned.
StartupCall(call) ==
  /\ initStep' = initStep + 1
  /\ IF call = "createTerrain"
       THEN /\ elevationData' = generateElevation(MARIA, CRATERS)
            /\ elevationWrites' = elevationWrites + 1
       ELSE UNCHANGED <<elevationData, elevationWrites>>
  /\ IF call \in {"createArtifacts", "createResources"}
       THEN Sampled(call)
       ELSE UNCHANGED fallbacks
  /\ IF call = "animate"
       THEN frameRequests' = frameRequests + 1
       ELSE UNCHANGED frameRequests
  /\ UNCHANGED searchVars
  /\ UNCHANGED resourceMeshes
  /\ UNCHANGED camera
  /\ UNCHANGED <<trajVars, geoVars, labelVars, missionPanel>>
Startup ==
  /\ initStep < Len(initOrder)
  /\ StartupCall(initOrder[initStep + 1])

\* openMissionPanel (1146-1178), from a click on a marker (1111-1129)
openMissionPanel(artifact) ==
  /\ missionPanel' = [hidden |-> FALSE, artifactName |-> artifact.name]
  /\ Sampled("openMissionPanel")
ClickMarker ==
  /\ loaded
  /\ \E k \in 1..Len(ARTIFACTS) :
       /\ ARTIFACTS[k].name \in ClickedNames
       /\ openMissionPanel(ARTIFACTS[k])
  /\ UNCHANGED searchVars
  /\ UNCHANGED resourceMeshes
  /\ UNCHANGED camera
  /\ UNCHANGED <<elevationData, frameRequests, startVars, trajVars, geoVars,
                 labelVars>>

\* the click handler of #panelTrajectory (1979-1985); the button is inside
\* the panel
ShowFound(k) == k > 0 /\ showTrajectory(ARTIFACTS[k])
ClickTrajectory ==
  /\ loaded
  /\ ~ missionPanel.hidden
  /\ Len(paths) < MaxPaths
  /\ ShowFound(FindByName(missionPanel.artifactName, 1))
  /\ UNCHANGED searchVars
  /\ UNCHANGED resourceMeshes
  /\ UNCHANGED <<elevationData, frameRequests, startVars, geoVars, labelVars,
                 missionPanel>>

\* closeMissionPanel (1180-1183), the click handler of #panelClose (1974)
closeMissionPanel ==
  /\ loaded
  /\ ~ missionPanel.hidden
  /\ missionPanel' = [missionPanel EXCEPT !.hidden = TRUE]
  /\ clearTrajectory
  /\ UNCHANGED searchVars
  /\ UNCHANGED resourceMeshes
  /\ UNCHANGED camera
  /\ UNCHANGED <<elevationData, frameRequests, startVars, fallbacks, paths,
                 geoVars, labelVars>>

animateEach(ps, group) ==
  [k \in 1..Len(ps) |-> animateSpacecraft(ps[k], group)]
\* one call of animate (2315-2325): trajectoryGroup.userData.animate(), the
\* animateSpacecraft of the current group, when there is one (2320-2322)
animateCurrent(ps, group) ==
  IF group = 0 THEN ps
  ELSE [ps EXCEPT ![group] = animateSpacecraft(@, group)]
\* the calls of the n callbacks that were requested for a frame
RECURSIVE RunCallbacks(_, _, _)
RunCallbacks(ps, group, n) ==
  IF n = 0 THEN ps
  ELSE RunCallbacks(animateCurrent(ps, group), group, n - 1)
\* the time from one frame to the next, in milliseconds
FrameMs == 250
FrameTimes == {FrameMs, 2 * FrameMs}
\* one frame: the browser calls every requested animate callback, and each
\* requests itself again (2316), and it calls the animateCamera closures
\* that were requested.  With no trajectory shown and no fly-to running a
\* frame changes nothing.
animate ==
  /\ trajectoryGroup # 0 \/ camera.animateCamera # << >>
  /\ paths' = RunCallbacks(paths, trajectoryGroup, frameRequests)
  /\ \E dt \in FrameTimes : camera' = CameraFrame(camera, dt)
  /\ UNCHANGED searchVars
  /\ UNCHANGED resourceMeshes
  /\ UNCHANGED <<elevationData, frameRequests, startVars, fallbacks,
                 trajectoryGroup, scene, geoVars, labelVars, missionPanel>>

\* the first MaxFrames frames of a trajectory
EarlyFrame ==
  /\ trajectoryGroup # 0
  /\ paths[trajectoryGroup].animationProgress < MaxFrames * animationSpeed
  /\ animate

Next ==
  Startup \/ ClickMarker \/ ClickTrajectory \/ closeMissionPanel \/ EarlyFrame
Spec == Init /\ [][Next]_vars

\* ------------------------------------------------------------------------
\* SpecAnim: one trajectory of each profile, shown and then drawn frame
\* after frame, through the end of the path and on
\* ------------------------------------------------------------------------
AnimatedNames == {"LRO", "Lunar Prospector", "Luna 2"}

ShowAnimated ==
  /\ loaded
  /\ paths = << >>
  /\ \E k \in 1..Len(ARTIFACTS) :
       /\ ARTIFACTS[k].name \in AnimatedNames
       /\ showTrajectory(ARTIFACTS[k])
  /\ UNCHANGED searchVars
  /\ UNCHANGED resourceMeshes
  /\ UNCHANGED <<elevationData, frameRequests, startVars, geoVars, labelVars,
                 missionPanel>>

NextAnim == Startup \/ ShowAnimated \/ animate
SpecAnim == Init /\ [][NextAnim]_vars
\* requestAnimationFrame keeps calling animate back (2316): while a
\* trajectory is displayed the frame that draws it is eventually rendered
SpecAnimFair == SpecAnim /\ WF_vars(animate)

\* ------------------------------------------------------------------------
\* SpecCamera: fly-tos started from the keyboard and by showTrajectory
\* while frames are rendered
\* ------------------------------------------------------------------------
\* how many fly-tos are started
MaxFocus == 2
\* the number keys pressed (1820-1828)
FocusKeys == {1, 2}
FocusedNames == {"Luna 2", "Surveyor 3", "LRO"}
\* artifactMarkers.filter(m => m.marker.visible) (1822), as indices
RECURSIVE visibleArtifacts(_, _)
visibleArtifacts(shown, i) ==
  IF i > Len(shown) THEN << >>
  ELSE IF shown[i] THEN <<i>> \o visibleArtifacts(shown, i + 1)
  ELSE visibleArtifacts(shown, i + 1)
focusOnVisible(index, found) ==
  IF index <= Len(found)
    THEN focusOnCoords(ARTIFACTS[found[index]].lat, ARTIFACTS[found[index]].lon)
    ELSE UNCHANGED camera
\* onKeyDown for a key from '1' to '9' (1820-1828)
FocusKey ==
  /\ loaded
  /\ Len(camera.targets) < MaxFocus
  /\ \E key \in FocusKeys :
       focusOnVisible(key, visibleArtifacts(markerVisible, 1))
  /\ UNCHANGED searchVars
  /\ UNCHANGED resourceMeshes
  /\ UNCHANGED <<elevationData, frameRequests, startVars, fallbacks, trajVars,
                 geoVars, labelVars, missionPanel>>
\* the click handler of #panelTrajectory (1979-1985) for the artifact the
\* panel names
ShowFocused ==
  /\ loaded
  /\ Len(camera.targets) < MaxFocus
  /\ Len(paths) < MaxPaths
  /\ \E k \in 1..Len(ARTIFACTS) :
       /\ ARTIFACTS[k].name \in FocusedNames
       /\ showTrajectory(ARTIFACTS[k])
  /\ UNCHANGED searchVars
  /\ UNCHANGED resourceMeshes
  /\ UNCHANGED <<elevationData, frameRequests, startVars, geoVars, labelVars,
                 missionPanel>>

\* the frames rendered while a fly-to is running
FocusFrame ==
  /\ camera.animateCamera # << >>
  /\ animate

NextCamera == FocusKey \/ ShowFocused \/ FocusFrame
SpecCamera == InitTraj /\ [][NextCamera]_vars

\* ------------------------------------------------------------------------
\* Properties of the trajectory builder (SpecTraj)
\* ------------------------------------------------------------------------
\* the tolerance of a comparison of lengths and coordinates, in PosScale
\* units: what rounding each coordinate to a whole unit can move
Eps == 2

\* the first descent point follows the approach and orbit points
descentStart == (approachSegments + 1) + (orbitSegments + 1)
\* the missions of the OrbiterDescent profile among the paths built
OrbiterDescentPaths ==
  { k \in 1..Len(paths) :
      /\ includes(toLowerCase(paths[k].artifact.type), StrOrbit)
      /\ toLowerCase(paths[k].artifact.status) # StrOrbiting }
\* MOON_RADIUS + 2 * sample(lat, lon) + 3 under the point q, (lat, lon)
\* being q's position by the inverse of createTerrain and the clearance check
ClearanceRadius(q, g) ==
  MOON_RADIUS * PosScale
    + RDiv(getElevationAt(g.lat, g.lon, elevationData) * 2 * PosScale, ElevScale)
    + 3 * PosScale
Cleared(q) == Length(q) + Eps >= ClearanceRadius(q, Unproject(q))
Near(p, q) == \A c \in 1..3 : Abs(p[c] - q[c]) <= Eps
\* q is raw moved along its own ray onto the radius min
MovedOnto(raw, q, min) ==
  /\ Abs(Length(q) - min) <= Eps
  /\ Near(ScaleTo(raw, Length(q)), q)
ClampedRight(raw, q, min) ==
  IF Length(raw) < min THEN MovedOnto(raw, q, min) ELSE q = raw
\* C1: in every OrbiterDescent trajectory each point appended by the
\* descent loop is at least MOON_RADIUS + 2 * sample(lat, lon) + 3 from the
\* centre, (lat, lon) being the point's own position, and a point computed
\* below that radius has been moved outward along its ray onto that radius
C1_DescentClearance ==
  \A k \in OrbiterDescentPaths :
    LET points == paths[k].curvePoints
        landing == landingPos(paths[k].artifact, elevationData)
    IN /\ Len(points) = descentStart + descentSegments
       /\ \A i \in 1..descentSegments :
            LET raw == DescentRaw(points[descentStart], landing, i)
            IN /\ Cleared(points[descentStart + i])
               /\ ClampedRight(raw, points[descentStart + i],
                               ClearanceRadius(raw, Unproject(raw)))
\* an OrbiterDescent trajectory with a descent point that the check moved
C1_Witness ==
  \E k \in OrbiterDescentPaths :
    LET points == paths[k].curvePoints
        landing == landingPos(paths[k].artifact, elevationData)
    IN \E i \in 1..descentSegments :
         LET raw == DescentRaw(points[descentStart], landing, i)
         IN /\ Length(raw) < ClearanceRadius(raw, Unproject(raw))
            /\ points[descentStart + i] # raw
            /\ Cleared(points[descentStart + i])

\* the paths of the trajectories that are not a steady orbit
DescentBearingPaths ==
  { k \in 1..Len(paths) : toLowerCase(paths[k].artifact.status) # StrOrbiting }

\* C2: no point of the whole point sequence of an OrbiterDescent or
\* DirectArc trajectory (approach, orbit sweep, descent or direct arc, the
\* final point included) is nearer to the centre than the surface radius
\* under it plus the clearance, MOON_RADIUS + 2 * sample(unproject(p)) + 3
C2_WholePathClearance ==
  \A k \in DescentBearingPaths :
    \A i \in 1..Len(paths[k].curvePoints) : Cleared(paths[k].curvePoints[i])

\* C7: the branch that builds the points is SteadyOrbit iff the lower-case
\* status is "orbiting" (whatever the type), OrbiterDescent iff the
\* lower-case type contains "orbit" and the status is not "orbiting", and
\* DirectArc otherwise; the points are those of that one branch
C7_Classification ==
  \A k \in 1..Len(paths) :
    LET status == toLowerCase(paths[k].artifact.status)
        type == toLowerCase(paths[k].artifact.type)
        points == paths[k].curvePoints
    IN /\ paths[k].branch \in {"orbit", "orbiter", "direct"}
       /\ paths[k].branch = "orbit" <=> status = StrOrbiting
       /\ paths[k].branch = "orbiter"
            <=> (includes(type, StrOrbit) /\ status # StrOrbiting)
       /\ paths[k].branch = "direct"
            <=> (~includes(type, StrOrbit) /\ status # StrOrbiting)
       /\ paths[k].branch = "orbit" =>
            Len(points) = segments + 1 /\ points[1] # earthPosition
       /\ paths[k].branch = "orbiter" =>
            Len(points) = descentStart + descentSegments
              /\ points[1] = earthPosition
       /\ paths[k].branch = "direct" =>
            Len(points) = segments + 1 /\ points[1] = earthPosition
\* a mission whose type contains "orbit" and whose status, in another
\* case, is "orbiting": built as a steady orbit
C7_Witness ==
  \E k \in 1..Len(paths) :
    /\ includes(toLowerCase(paths[k].artifact.type), StrOrbit)
    /\ paths[k].artifact.status # StrOrbiting
    /\ toLowerCase(paths[k].artifact.status) = StrOrbiting
    /\ paths[k].branch = "orbit"

\* C8: the trajectory of a mission with status "orbiting" has exactly
\* segments + 1 = 101 points, none of them at the Earth reference position,
\* and its first and last points coincide
C8_OrbitLoop ==
  \A k \in 1..Len(paths) :
    toLowerCase(paths[k].artifact.status) = StrOrbiting =>
      LET points == paths[k].curvePoints
      IN /\ Len(points) = 101
         /\ \A i \in 1..Len(points) : ~Near(points[i], earthPosition)
         /\ Near(points[1], points[Len(points)])
\* the loop of an orbiting mission: closed, and through the point opposite
\* to its start half-way
C8_Witness ==
  \E k \in 1..Len(paths) :
    /\ toLowerCase(paths[k].artifact.status) = StrOrbiting
    /\ Len(paths[k].curvePoints) = 101
    /\ Near(paths[k].curvePoints[1], paths[k].curvePoints[101])
    /\ ~Near(paths[k].curvePoints[1], paths[k].curvePoints[51])

\* C9: every trajectory that is not a steady orbit starts at the Earth
\* reference point (3 * MOON_RADIUS, 0, 0) and ends at the landing point
\* latLonToVector3(lat, lon, MOON_RADIUS + 2 * elev(lat, lon))
C9_EarthToLanding ==
  \A k \in DescentBearingPaths :
    LET points == paths[k].curvePoints
    IN /\ points[1] = Vec(3 * MOON_RADIUS * PosScale, 0, 0)
       /\ Near(points[Len(points)],
               landingPos(paths[k].artifact, elevationData))

\* the point on the ray of landing that the safety check leaves: landing
\* itself, or landing raised onto the clearance radius under it when it is
\* below that radius
RaisedLanding(q, landing) ==
  /\ Near(ScaleTo(landing, Length(q)), q)
  /\ Abs(Length(q)
           - Max(Length(landing), ClearanceRadius(landing, Unproject(landing))))
       <= Eps
\* C9, amended: every trajectory that is not a steady orbit starts at the
\* Earth reference point; a DirectArc ends at the landing point, and an
\* OrbiterDescent ends on the landing point's ray, at the landing point or,
\* when that is below MOON_RADIUS + 2 * sample(unproject(landing)) + 3, on
\* that radius
C9_EarthToRaisedLanding ==
  \A k \in DescentBearingPaths :
    LET points == paths[k].curvePoints
        landing == landingPos(paths[k].artifact, elevationData)
    IN /\ points[1] = Vec(3 * MOON_RADIUS * PosScale, 0, 0)
       /\ paths[k].branch = "direct" => Near(points[Len(points)], landing)
       /\ paths[k].branch = "orbiter" =>
            RaisedLanding(points[Len(points)], landing)
\* an OrbiterDescent trajectory from the Earth reference point whose last
\* point is not the landing point but the point above it
C9_Witness ==
  \E k \in DescentBearingPaths :
    LET points == paths[k].curvePoints
        landing == landingPos(paths[k].artifact, elevationData)
    IN /\ paths[k].branch = "orbiter"
       /\ points[1] = Vec(3 * MOON_RADIUS * PosScale, 0, 0)
       /\ ~ Near(points[Len(points)], landing)
       /\ RaisedLanding(points[Len(points)], landing)

\* ------------------------------------------------------------------------
\* The search box and the origin filters (SpecSearch)
\* ------------------------------------------------------------------------
Digits == << "0", "1", "2", "3", "4", "5", "6", "7", "8", "9" >>
\* String(n) of a non-negative integer: its decimal digits
RECURSIVE String(_)
String(n) ==
  IF n < 10
    THEN << Digits[n + 1] >>
    ELSE Append(String(n \div 10), Digits[(n % 10) + 1])

Text(name, operator, year) ==
  [name |-> name, operator |-> operator, year |-> year]
\* ArtifactText[i]: the name, the operator and the year of ARTIFACTS[i]
ArtifactText ==
  << Text(<< "L", "u", "n", "a", " ", "2" >>,
          << "S", "o", "v", "i", "e", "t", " ", "U", "n", "i", "o", "n" >>, 1959),
     Text(<< "L", "u", "n", "a", " ", "2", " ", "T", "h", "i", "r", "d", " ",
             "S", "t", "a", "g", "e" >>,
          << "S", "o", "v", "i", "e", "t", " ", "U", "n", "i", "o", "n" >>, 1959),
     Text(<< "R", "a", "n", "g", "e", "r", " ", "4" >>,
          << "U", "n", "i", "t", "e", "d", " ", "S", "t", "a", "t", "e",
             "s" >>, 1962),
     Text(<< "R", "a", "n", "g", "e", "r", " ", "6" >>,
          << "U", "n", "i", "t", "e", "d", " ", "S", "t", "a", "t", "e",
             "s" >>, 1964),
     Text(<< "R", "a", "n", "g", "e", "r", " ", "7" >>,
          << "U", "n", "i", "t", "e", "d", " ", "S", "t", "a", "t", "e",
             "s" >>, 1964),
     Text(<< "L", "u", "n", "a", " ", "5" >>,
          << "S", "o", "v", "i", "e", "t", " ", "U", "n", "i", "o", "n" >>, 1965),
     Text(<< "L", "u", "n", "a", " ", "7" >>,
          << "S", "o", "v", "i", "e", "t", " ", "U", "n", "i", "o", "n" >>, 1965),
     Text(<< "L", "u", "n", "a", " ", "8" >>,
          << "S", "o", "v", "i", "e", "t", " ", "U", "n", "i", "o", "n" >>, 1965),
     Text(<< "R", "a", "n", "g", "e", "r", " ", "8" >>,
          << "U", "n", "i", "t", "e", "d", " ", "S", "t", "a", "t", "e",
             "s" >>, 1965),
     Text(<< "R", "a", "n", "g", "e", "r", " ", "9" >>,
          << "U", "n", "i", "t", "e", "d", " ", "S", "t", "a", "t", "e",
             "s" >>, 1965),
     Text(<< "L", "u", "n", "a", " ", "9" >>,
          << "S", "o", "v", "i", "e", "t", " ", "U", "n", "i", "o", "n" >>, 1966),
     Text(<< "S", "u", "r", "v", "e", "y", "o", "r", " ", "1" >>,
          << "U", "n", "i", "t", "e", "d", " ", "S", "t", "a", "t", "e",
             "s" >>, 1966),
     Text(<< "L", "u", "n", "a", " ", "1", "3" >>,
          << "S", "o", "v", "i", "e", "t", " ", "U", "n", "i", "o", "n" >>, 1966),
     Text(<< "S", "u", "r", "v", "e", "y", "o", "r", " ", "3" >>,
          << "U", "n", "i", "t", "e", "d", " ", "S", "t", "a", "t", "e",
             "s" >>, 1967),
     Text(<< "S", "u", "r", "v", "e", "y", "o", "r", " ", "5" >>,
          << "U", "n", "i", "t", "e", "d", " ", "S", "t", "a", "t", "e",
             "s" >>, 1967),
     Text(<< "S", "u", "r", "v", "e", "y", "o", "r", " ", "6" >>,
          << "U", "n", "i", "t", "e", "d", " ", "S", "t", "a", "t", "e",
             "s" >>, 1967),
     Text(<< "S", "u", "r", "v", "e", "y", "o", "r", " ", "7" >>,
          << "U", "n", "i", "t", "e", "d", " ", "S", "t", "a", "t", "e",
             "s" >>, 1968),
     Text(<< "A", "p", "o", "l", "l", "o", " ", "1", "1", " ", "E", "a", "g",
             "l", "e" >>,
          << "U", "n", "i", "t", "e", "d", " ", "S", "t", "a", "t", "e",
             "s" >>, 1969),
     Text(<< "A", "p", "o", "l", "l", "o", " ", "1", "1", " ", "F", "l", "a",
             "g" >>,
          << "U", "n", "i", "t", "e", "d", " ", "S", "t", "a", "t", "e",
             "s" >>, 1969),
     Text(<< "A", "p", "o", "l", "l", "o", " ", "1", "2", " ", "I", "n", "t",
             "r", "e", "p", "i", "d" >>,
          << "U", "n", "i", "t", "e", "d", " ", "S", "t", "a", "t", "e",
             "s" >>, 1969),
     Text(<< "L", "u", "n", "a", " ", "1", "6" >>,
          << "S", "o", "v", "i", "e", "t", " ", "U", "n", "i", "o", "n" >>, 1970),
     Text(<< "L", "u", "n", "a", " ", "1", "7", "/", "L", "u", "n", "o", "k",
             "h", "o", "d", " ", "1" >>,
          << "S", "o", "v", "i", "e", "t", " ", "U", "n", "i", "o", "n" >>, 1970),
     Text(<< "A", "p", "o", "l", "l", "o", " ", "1", "4", " ", "A", "n", "t",
             "a", "r", "e", "s" >>,
          << "U", "n", "i", "t", "e", "d", " ", "S", "t", "a", "t", "e",
             "s" >>, 1971),
     Text(<< "A", "p", "o", "l", "l", "o", " ", "1", "5", " ", "F", "a", "l",
             "c", "o", "n" >>,
          << "U", "n", "i", "t", "e", "d", " ", "S", "t", "a", "t", "e",
             "s" >>, 1971),
     Text(<< "A", "p", "o", "l", "l", "o", " ", "1", "5", " ", "R", "o", "v",
             "e", "r" >>,
          << "U", "n", "i", "t", "e", "d", " ", "S", "t", "a", "t", "e",
             "s" >>, 1971),
     Text(<< "L", "u", "n", "a", " ", "2", "0" >>,
          << "S", "o", "v", "i", "e", "t", " ", "U", "n", "i", "o", "n" >>, 1972),
     Text(<< "A", "p", "o", "l", "l", "o", " ", "1", "6", " ", "O", "r", "i",
             "o", "n" >>,
          << "U", "n", "i", "t", "e", "d", " ", "S", "t", "a", "t", "e",
             "s" >>, 1972),
     Text(<< "A", "p", "o", "l", "l", "o", " ", "1", "7", " ", "C", "h", "a",
             "l", "l", "e", "n", "g", "e", "r" >>,
          << "U", "n", "i", "t", "e", "d", " ", "S", "t", "a", "t", "e",
             "s" >>, 1972),
     Text(<< "L", "u", "n", "a", " ", "2", "1", "/", "L", "u", "n", "o", "k",
             "h", "o", "d", " ", "2" >>,
          << "S", "o", "v", "i", "e", "t", " ", "U", "n", "i", "o", "n" >>, 1973),
     Text(<< "L", "u", "n", "a", " ", "2", "3" >>,
          << "S", "o", "v", "i", "e", "t", " ", "U", "n", "i", "o", "n" >>, 1974),
     Text(<< "L", "u", "n", "a", " ", "2", "4" >>,
          << "S", "o", "v", "i", "e", "t", " ", "U", "n", "i", "o", "n" >>, 1976),
     Text(<< "H", "i", "t", "e", "n" >>,
          << "J", "a", "p", "a", "n" >>, 1993),
     Text(<< "L", "u", "n", "a", "r", " ", "P", "r", "o", "s", "p", "e", "c",
             "t", "o", "r" >>,
          << "U", "n", "i", "t", "e", "d", " ", "S", "t", "a", "t", "e",
             "s" >>, 1999),
     Text(<< "S", "M", "A", "R", "T", "-", "1" >>,
          << "E", "u", "r", "o", "p", "e" >>, 2006),
     Text(<< "S", "E", "L", "E", "N", "E", "/", "K", "a", "g", "u", "y",
             "a" >>,
          << "J", "a", "p", "a", "n" >>, 2009),
     Text(<< "C", "h", "a", "n", "g", "'", "e", " ", "1" >>,
          << "C", "h", "i", "n", "a" >>, 2009),
     Text(<< "C", "h", "a", "n", "d", "r", "a", "y", "a", "a", "n", "-", "1",
             " ", "M", "I", "P" >>,
          << "I", "n", "d", "i", "a" >>, 2008),
     Text(<< "L", "C", "R", "O", "S", "S", " ", "C", "e", "n", "t", "a", "u",
             "r" >>,
          << "U", "n", "i", "t", "e", "d", " ", "S", "t", "a", "t", "e",
             "s" >>, 2009),
     Text(<< "L", "R", "O" >>,
          << "U", "n", "i", "t", "e", "d", " ", "S", "t", "a", "t", "e",
             "s" >>, 2009),
     Text(<< "G", "R", "A", "I", "L", "-", "A", " ", "E", "b", "b" >>,
          << "U", "n", "i", "t", "e", "d", " ", "S", "t", "a", "t", "e",
             "s" >>, 2012),
     Text(<< "G", "R", "A", "I", "L", "-", "B", " ", "F", "l", "o", "w" >>,
          << "U", "n", "i", "t", "e", "d", " ", "S", "t", "a", "t", "e",
             "s" >>, 2012),
     Text(<< "C", "h", "a", "n", "g", "'", "e", " ", "3", "/", "Y", "u", "t",
             "u" >>,
          << "C", "h", "i", "n", "a" >>, 2013),
     Text(<< "L", "A", "D", "E", "E" >>,
          << "U", "n", "i", "t", "e", "d", " ", "S", "t", "a", "t", "e",
             "s" >>, 2014),
     Text(<< "C", "h", "a", "n", "g", "'", "e", " ", "4", "/", "Y", "u", "t",
             "u", "-", "2" >>,
          << "C", "h", "i", "n", "a" >>, 2019),
     Text(<< "B", "e", "r", "e", "s", "h", "e", "e", "t" >>,
          << "I", "s", "r", "a", "e", "l" >>, 2019),
     Text(<< "C", "h", "a", "n", "d", "r", "a", "y", "a", "a", "n", "-", "2",
             " ", "V", "i", "k", "r", "a", "m" >>,
          << "I", "n", "d", "i", "a" >>, 2019),
     Text(<< "C", "h", "a", "n", "g", "'", "e", " ", "5" >>,
          << "C", "h", "i", "n", "a" >>, 2020),
     Text(<< "H", "a", "k", "u", "t", "o", "-", "R", " ", "M", "i", "s", "s",
             "i", "o", "n", " ", "1" >>,
          << "J", "a", "p", "a", "n" >>, 2023),
     Text(<< "C", "h", "a", "n", "d", "r", "a", "y", "a", "a", "n", "-", "3",
             " ", "V", "i", "k", "r", "a", "m" >>,
          << "I", "n", "d", "i", "a" >>, 2023),
     Text(<< "C", "h", "a", "n", "d", "r", "a", "y", "a", "a", "n", "-", "3",
             " ", "P", "r", "a", "g", "y", "a", "n" >>,
          << "I", "n", "d", "i", "a" >>, 2023),
     Text(<< "L", "u", "n", "a", " ", "2", "5" >>,
          << "R", "u", "s", "s", "i", "a" >>, 2023),
     Text(<< "S", "L", "I", "M" >>,
          << "J", "a", "p", "a", "n" >>, 2024),
     Text(<< "O", "d", "y", "s", "s", "e", "u", "s", " ", "(", "I", "M", "-",
             "1", ")" >>,
          << "U", "n", "i", "t", "e", "d", " ", "S", "t", "a", "t", "e",
             "s" >>, 2024),
     Text(<< "C", "h", "a", "n", "g", "'", "e", " ", "6" >>,
          << "C", "h", "i", "n", "a" >>, 2024),
     Text(<< "B", "l", "u", "e", " ", "G", "h", "o", "s", "t", " ", "M", "i",
             "s", "s", "i", "o", "n", " ", "1" >>,
          << "U", "n", "i", "t", "e", "d", " ", "S", "t", "a", "t", "e",
             "s" >>, 2025),
     Text(<< "H", "a", "k", "u", "t", "o", "-", "R", " ", "M", "2" >>,
          << "J", "a", "p", "a", "n" >>, 2025),
     Text(<< "I", "M", "-", "2", " ", "A", "t", "h", "e", "n", "a" >>,
          << "U", "n", "i", "t", "e", "d", " ", "S", "t", "a", "t", "e",
             "s" >>, 2025) >>

\* the eight origin tests of updateArtifactVisibility: the operator each one
\* compares data.operator with and the switch it reads
Origins ==
  << [operator |-> << "S", "o", "v", "i", "e", "t", " ", "U", "n", "i", "o",
                     "n" >>,
      filter |-> "filterSovietUnion"],
     [operator |-> << "R", "u", "s", "s", "i", "a" >>,
      filter |-> "filterRussia"],
     [operator |-> << "U", "n", "i", "t", "e", "d", " ", "S", "t", "a", "t",
                     "e", "s" >>,
      filter |-> "filterUS"],
     [operator |-> << "C", "h", "i", "n", "a" >>,
      filter |-> "filterChina"],
     [operator |-> << "I", "n", "d", "i", "a" >>,
      filter |-> "filterIndia"],
     [operator |-> << "J", "a", "p", "a", "n" >>,
      filter |-> "filterJapan"],
     [operator |-> << "I", "s", "r", "a", "e", "l" >>,
      filter |-> "filterIsrael"],
     [operator |-> << "E", "u", "r", "o", "p", "e" >>,
      filter |-> "filterEurope"] >>
showByOrigin(data, st) ==
  \E o \in 1..Len(Origins) :
    data.operator = Origins[o].operator /\ st[Origins[o].filter]
matchesSearch(data, query) ==
  \/ query = << >>
  \/ includes(toLowerCase(data.name), query)
  \/ includes(String(data.year), query)
\* what one pass of the loop gives marker.visible
visible(data, st, query) ==
  IF ~st.showArtifacts
    THEN FALSE
    ELSE showByOrigin(data, st) /\ matchesSearch(data, query)
\* mutant: the label is left as the loop of updateVisibility set it
labelShownAlways(shown, st) == st.showLabels
\* what the pass gives label.visible (942, 965), shown being what it gave
\* marker.visible
labelShown(shown, st) == shown /\ st.showLabels
updateArtifactVisibility(st) ==
  /\ markerVisible' =
       [i \in 1..Len(ArtifactText) |->
          visible(ArtifactText[i], st, toLowerCase(st.searchQuery))]
  /\ labelVisible' =
       [i \in 1..Len(ArtifactText) |-> labelShown(markerVisible'[i], st)]
\* updateVisibility (898-928), as far as the artifacts go: every label is
\* set to showLabels (915-917), and updateArtifactVisibility, called last,
\* sets each of them again
\* updateResourceVisibility (973-1008): every entry is as visible as its
\* switch says; the materials of a visible deposit get
\* concentration * state.resourceOpacity * 0.9 and * 0.5 (every
\* concentration of RESOURCES is above 0)
updateResourceVisibility(st) ==
  resourceMeshes' =
    [kind \in DOMAIN ShownBy |->
       [visible |-> st[ShownBy[kind]],
        opacityFrom |-> IF kind \in Deposits /\ st[ShownBy[kind]]
                          THEN st.resourceOpacity
                          ELSE resourceMeshes[kind].opacityFrom]]
updateVisibility(st) ==
  updateArtifactVisibility(st) /\ updateResourceVisibility(st)

\* what the user types into the search box
Queries ==
  { << >>,
    << "l", "u", "n", "a" >>,
    << "L", "U", "N", "A" >>,
    << "A", "p", "o", "l", "l", "o", " ", "1", "1" >>,
    << "1", "9", "6", "9" >>,
    << "1", "9" >>,
    << "c", "h", "i", "n", "a" >>,
    << "U", "n", "i", "t", "e", "d", " ", "S", "t", "a", "t", "e", "s" >>,
    << "z", "z", "z" >> }
FilterNames == { Origins[o].filter : o \in 1..Len(Origins) }
\* at most MaxFiltersOff origin filters are off at a time
MaxFiltersOff == 2
FiltersOff == { f \in FilterNames : ~ state[f] }
Handled(st) ==
  /\ state' = st
  /\ updateArtifactVisibility(st)
  /\ UNCHANGED <<elevationData, frameRequests, startVars, fallbacks, trajVars,
                 geoVars, labelVars, missionPanel, camera, resourceMeshes>>
\* the input event of #searchBox; Escape in the box (1690-1694) is the
\* input of the empty value
SearchInput ==
  \E value \in Queries :
    /\ loaded
    /\ Handled([state EXCEPT !.searchQuery = value])
\* the change event of one of the eight origin checkboxes
FilterChange ==
  \E f \in FilterNames :
    /\ loaded
    /\ state[f] => Cardinality(FiltersOff) < MaxFiltersOff
    /\ Handled([state EXCEPT ![f] = ~state[f]])
\* the change event of #toggleArtifacts, and the key m (1723-1725)
ToggleArtifacts ==
  /\ loaded
  /\ Handled([state EXCEPT !.showArtifacts = ~state.showArtifacts])
\* the change event of #toggleLabels (1872-1875), and the key l (1707-1711)
ToggleLabels ==
  /\ loaded
  /\ state' = [state EXCEPT !.showLabels = ~state.showLabels]
  /\ updateVisibility(state')
  /\ UNCHANGED <<elevationData, frameRequests, startVars, fallbacks, trajVars,
                 geoVars, labelVars, missionPanel, camera>>
NextSearch ==
  SearchInput \/ FilterChange \/ ToggleArtifacts \/ ToggleLabels
SpecSearch == InitTraj /\ [][NextSearch]_vars

\* ------------------------------------------------------------------------
\* SpecKeys: the resource keys of onKeyDown
\* ------------------------------------------------------------------------
\* mutant: the opacity raised without the upper bound
raisedUnbounded(opacity) == Plus(opacity, Tenth)
\* Math.min(1, state.resourceOpacity + 0.1) (1781)
raised(opacity) == MathMin(One, Plus(opacity, Tenth))
\* Math.max(0.2, state.resourceOpacity - 0.1) (1785)
lowered(opacity) == MathMax(Fifth, Minus(opacity, Tenth))
ResourceKey(st) ==
  /\ state' = st
  /\ updateResourceVisibility(st)
  /\ UNCHANGED <<elevationData, frameRequests, startVars, fallbacks, trajVars,
                 geoVars, labelVars, missionPanel, camera, markerVisible,
                 labelVisible>>
\* the keys '+' and '=' (1780-1783)
OpacityUp ==
  /\ loaded
  /\ ResourceKey([state EXCEPT !.resourceOpacity = raised(@)])
\* the keys '-' and '_' (1784-1787)
OpacityDown ==
  /\ loaded
  /\ ResourceKey([state EXCEPT !.resourceOpacity = lowered(@)])
\* the key 'a' (1770-1779): all deposits off when any is on, else all on
anyOn(st) == \E kind \in Deposits : st[ShownBy[kind]]
allDeposits(st, on) ==
  [f \in DOMAIN st |->
     IF f \in { ShownBy[kind] : kind \in Deposits } THEN on ELSE st[f]]
ToggleAll ==
  /\ loaded
  /\ ResourceKey(allDeposits(state, ~ anyOn(state)))
\* the key 'w' (1745-1749)
ToggleWater ==
  /\ loaded
  /\ ResourceKey([state EXCEPT !.showWater = ~ @])
NextKeys == OpacityUp \/ OpacityDown \/ ToggleAll \/ ToggleWater
SpecKeys == InitTraj /\ [][NextKeys]_vars

\* ------------------------------------------------------------------------
\* Properties of the coordinate mapping and of the sampler (SpecGeo)
\* ------------------------------------------------------------------------
AngleEps == AngDen \div 10
ElevEps == 2
\* the angle between two longitudes, the short way round
LonApart(a, b) == Min((a - b) % Deg(360), (b - a) % Deg(360))
Projected ==
  geoInput # NULL /\ geoOutput # NULL /\ geoInput.op = "project"
VertexSampled ==
  geoInput # NULL /\ geoOutput # NULL /\ geoInput.op = "vertex"
SeamSampled ==
  geoInput # NULL /\ geoOutput # NULL /\ geoInput.op = "seam"

\* C3: the inverse of createTerrain (lat = asin(y / r), lon = atan2(x, z))
\* applied to latLonToVector3(lat, lon, r) returns (lat, lon), to a tenth of
\* a degree
C3_RoundTrip ==
  Projected =>
    /\ Abs(geoOutput.lat - geoInput.lat) <= AngleEps
    /\ LonApart(geoOutput.lon, geoInput.lon) <= AngleEps

C5_SeamContinuity ==
  SeamSampled => Abs(geoOutput.east - geoOutput.west) <= ElevEps


\* ------------------------------------------------------------------------
\* Properties of the label pass (SpecLabel)
\* ------------------------------------------------------------------------
LabelsApart(p, q) ==
  DistSq(p, q) >= (minDistance * PosScale) * (minDistance * PosScale)
\* the candidate position is within minDistance of an earlier label
Blocked(testPos, n) ==
  \E j \in 1..(n - 1) : ~ LabelsApart(testPos, labelPositions[j])

\* C6: the label placed last is at its marker's position plus the first of
\* the eight offsets, in their listed order, that is at least 30 units from
\* every label placed before it, and so is itself at least 30 units from
\* each of them; it is the random fallback only when all eight are blocked
C6_FirstFit ==
  LET n == Len(labelPositions)
      pos == MarkerPos(ARTIFACTS[n], elevationData)
      m == labelOffsets[n]
  IN n > 0 =>
       /\ \A c \in 1..Len(offsets) :
            (c < m \/ m = 0) => Blocked(Add(pos, offsets[c]), n)
       /\ m > 0 =>
            /\ labelPositions[n] = Add(pos, offsets[m])
            /\ \A j \in 1..(n - 1) :
                 LabelsApart(labelPositions[n], labelPositions[j])
\* a label went to a later offset because the first one was blocked, in a
\* pass that had already used the random fallback
C6_Witness ==
  LET n == Len(labelPositions)
  IN /\ n > 2
     /\ labelOffsets[n] > 1
     /\ \E j \in 1..(n - 1) : labelOffsets[j] = 0


\* ------------------------------------------------------------------------
\* Properties of the trajectory's life (Spec)
\* ------------------------------------------------------------------------
\* C10: for a path that was cleared or replaced by a later showTrajectory,
\* a call of its animateSpacecraft changes neither its animationProgress
\* nor the position or the orientation of its marker
C10_StalePathUntouched ==
  \A k \in 1..Len(paths) :
    k # trajectoryGroup =>
      animateSpacecraft(paths[k], trajectoryGroup) = paths[k]

\* C11: whenever the current trajectory is discarded (clearTrajectory) or
\* replaced (showTrajectory), the group it was drawn in is no longer a child
\* of the scene and is no longer the global trajectoryGroup, so that neither
\* refers to its point sequence; the scene then holds the new group alone,
\* or no trajectory group; and the cursor of the trajectory that becomes
\* current starts at progress 0, whatever the progress of the previous one
\* was.
Replaced == trajectoryGroup' # trajectoryGroup
C11_NoStaleReference ==
  [][Replaced =>
       /\ trajectoryGroup \notin scene'
       /\ scene' = {trajectoryGroup'} \ {0}
       /\ trajectoryGroup' # 0 =>
            paths'[trajectoryGroup'].animationProgress = 0]_vars
\* a second trajectory is current and at progress 0 while the first, which
\* it replaced, had advanced
C11_Witness ==
  /\ trajectoryGroup = 2
  /\ scene = {2}
  /\ paths[1].animationProgress > 0
  /\ paths[2].animationProgress = 0

\* ------------------------------------------------------------------------
\* Properties of the animation cursor (SpecAnim)
\* ------------------------------------------------------------------------
\* the index of the point the cursor is at and of the point it is turned
\* towards, 0-based as in the code
CursorIndex(path) == PointIndex(path.animationProgress, Len(path.curvePoints))
CursorNext(path) == Min(CursorIndex(path) + 1, Len(path.curvePoints) - 1)
InPath(path, index) == index >= 0 /\ index <= Len(path.curvePoints) - 1
\* C12: the progress of every cursor is in [0, 1]; a frame adds the fixed
\* step to it, or resets it to 0 when the sum exceeds 1; the point index
\* floor(progress * (len - 1)) and the next index min(index + 1, len - 1)
\* are in [0, len - 1], and the marker is at the origin (never drawn) or at
\* the point of that index: no read is outside the point sequence.
C12_CursorInRange ==
  /\ [](\A k \in 1..Len(paths) :
          /\ paths[k].animationProgress >= 0
          /\ paths[k].animationProgress <= Milli
          /\ InPath(paths[k], CursorIndex(paths[k]))
          /\ InPath(paths[k], CursorNext(paths[k]))
          /\ \/ paths[k].spacecraft = NewSpacecraft
             \/ paths[k].spacecraft.position =
                  paths[k].curvePoints[CursorIndex(paths[k]) + 1])
  /\ [][\A k \in 1..Len(paths) :
          \/ paths'[k].animationProgress = paths[k].animationProgress
          \/ /\ paths[k].animationProgress + animationSpeed <= Milli
             /\ paths'[k].animationProgress =
                  paths[k].animationProgress + animationSpeed
          \/ /\ paths[k].animationProgress + animationSpeed > Milli
             /\ paths'[k].animationProgress = 0]_vars
\* a cursor that went through the end of its path: it is back at progress 0
\* and its marker, which has been drawn, is on the first point
C12_Witness ==
  \E k \in 1..Len(paths) :
    /\ paths[k].animationProgress = 0
    /\ paths[k].spacecraft # NewSpacecraft
    /\ paths[k].spacecraft.position = paths[k].curvePoints[1]

\* ------------------------------------------------------------------------
\* Properties of the frame loop (Spec)
\* ------------------------------------------------------------------------
\* a step that leaves the panel, the current group and the number of paths
\* as they are is a frame
FrameStep ==
  /\ UNCHANGED <<trajectoryGroup, missionPanel>>
  /\ Len(paths') = Len(paths)
AdvancedOnce(k) ==
  paths'[k] = Stepped(paths[k], NextProgress(paths[k].animationProgress))
\* C13: a frame advances the cursor of the trajectory that is displayed,
\* exactly once, and no other cursor; no other step advances any cursor.
\* So the cursor of a trajectory that was replaced or cleared is never
\* advanced again, however frames interleave with showTrajectory and
\* clearTrajectory.
C13_OneCursorPerFrame ==
  [][\A k \in 1..Len(paths) :
       IF FrameStep /\ k = trajectoryGroup THEN AdvancedOnce(k)
       ELSE paths'[k] = paths[k]]_vars
\* both the replaced trajectory and the one that replaced it have been
\* drawn on some frames
C13_Witness ==
  /\ trajectoryGroup = 2
  /\ paths[1].animationProgress > 0
  /\ paths[2].animationProgress > 0

\* ------------------------------------------------------------------------
\* Properties of the trajectory builder without terrain (SpecBare)
\* ------------------------------------------------------------------------
\* the landing point on the sphere of radius MOON_RADIUS
BareLanding(artifact) ==
  latLonToVector3(artifact.lat, artifact.lon, MOON_RADIUS * PosScale)
\* C14: while no elevation field has been built, the elevation looked up at
\* the landing site and under every point of the path is 0, and
\* showTrajectory returns the full point sequence of the mission's profile:
\* a closed orbit, a direct arc that ends at the landing point on the sphere
\* of radius MOON_RADIUS, or an approach, sweep and descent whose descent
\* points are kept MOON_RADIUS + 3 from the centre.
C14_NoTerrain ==
  elevationData = NULL =>
    \A k \in 1..Len(paths) :
      LET points == paths[k].curvePoints
          artifact == paths[k].artifact
      IN /\ Len(points) > 0
         /\ getElevationAt(artifact.lat, artifact.lon, elevationData) = 0
         /\ \A i \in 1..Len(points) :
              surfaceElev(Unproject(points[i]), elevationData) = 0
         /\ paths[k].branch = "orbit" => Len(points) = segments + 1
         /\ paths[k].branch = "direct" =>
              /\ Len(points) = segments + 1
              /\ Near(points[Len(points)], BareLanding(artifact))
         /\ paths[k].branch = "orbiter" =>
              /\ Len(points) = descentStart + descentSegments
              /\ Near(landingPos(artifact, elevationData),
                      BareLanding(artifact))
              /\ \A i \in 1..descentSegments :
                   Length(points[descentStart + i]) + Eps
                     >= (MOON_RADIUS + 3) * PosScale
\* an approach, sweep and descent built with no elevation field, with a
\* descent point that the safety check moved onto radius MOON_RADIUS + 3
C14_Witness ==
  /\ elevationData = NULL
  /\ paths # << >>
  /\ paths[1].branch = "orbiter"
  /\ \E i \in 1..descentSegments :
       LET raw == DescentRaw(paths[1].curvePoints[descentStart],
                             landingPos(paths[1].artifact, elevationData), i)
       IN /\ Length(raw) < (MOON_RADIUS + 3) * PosScale
          /\ Abs(Length(paths[1].curvePoints[descentStart + i])
                   - (MOON_RADIUS + 3) * PosScale) <= Eps

\* ------------------------------------------------------------------------
\* Properties of the elevation field (SpecElev)
\* ------------------------------------------------------------------------
\* the contributions of all basins and of all craters at (lat, lon), each
\* added as it is
MariaTotal(lat, lon, maria) ==
  LET sum[n \in 0..Len(maria)] ==
        IF n = 0 THEN 0 ELSE sum[n - 1] + MareDelta(lat, lon, maria[n])
  IN sum[Len(maria)]
CratersTotal(lat, lon, craters) ==
  LET sum[n \in 0..Len(craters)] ==
        IF n = 0 THEN 0 ELSE sum[n - 1] + CraterDelta(lat, lon, craters[n])
  IN sum[Len(craters)]
\* the elevation of a field without features, then all features, in km
Unclipped(lat, lon, maria, craters) ==
  RawElevation(lat, lon, << >>, << >>)
    + MariaTotal(lat, lon, maria) + CratersTotal(lat, lon, craters)
CellBuilt == geoInput.op = "cell" /\ geoOutput # NULL
\* C15: every stored cell is in [-8 k, 10 k], k = MOON_RADIUS / 1737.4 (to
\* the rounding of the stored value), and is the sum of the base elevation,
\* every basin, every crater and the noise, clamped to [-8, 10] km once and
\* then scaled by k; for every cell read and every catalog.
C15_ClampedOnce ==
  CellBuilt =>
    LET lat == CellLat(geoInput.i)
        lon == CellLon(geoInput.j)
        catalog == Catalogs[geoInput.catalog]
        stored == geoOutput.stored
    IN /\ 2 * 17374 * stored >= 2 * (-8) * MOON_RADIUS * 10 * ElevScale - 17374
       /\ 2 * 17374 * stored <= 2 * 10 * MOON_RADIUS * 10 * ElevScale + 17374
       /\ stored = Cell(elevationData, geoInput.i, geoInput.j)
       /\ stored =
            ClampScale(Unclipped(lat, lon, catalog.maria, catalog.craters))
\* a cell whose sum is below -8 km after the basins and is stored as -8 k,
\* and a cell whose sum is above 10 km and is stored as 10 k
ClampedLow ==
  /\ CellBuilt
  /\ geoOutput.stored = ClampScale(-8 * KmScale)
  /\ Unclipped(CellLat(geoInput.i), CellLon(geoInput.j),
               Catalogs[geoInput.catalog].maria,
               Catalogs[geoInput.catalog].craters) < -8 * KmScale
ClampedHigh ==
  /\ CellBuilt
  /\ geoOutput.stored = ClampScale(10 * KmScale)
  /\ Unclipped(CellLat(geoInput.i), CellLon(geoInput.j),
               Catalogs[geoInput.catalog].maria,
               Catalogs[geoInput.catalog].craters) > 10 * KmScale
C15_Witness == ClampedLow

\* the records of a catalog whose size is positive
HasSize(feature) == feature.size > 0
Sized(features) == SelectSeq(features, HasSize)
\* the records of no size that are centred on the cell read
CentredOn(features, lat, lon) ==
  { n \in 1..Len(features) :
      /\ features[n].size <= 0
      /\ haversine(lat, lon, features[n].lat, features[n].lon) = 0 }
\* C16: a basin or crater of zero or negative size adds nothing to any
\* cell, the cell at its centre included: every cell of the field built
\* from a catalog equals the cell built from the catalog without those
\* records, and is computed (no factor is divided by a zero radius).
C16_NoSizeNoEffect ==
  CellBuilt =>
    LET lat == CellLat(geoInput.i)
        lon == CellLon(geoInput.j)
        catalog == Catalogs[geoInput.catalog]
    IN /\ geoOutput.stored =
            generateElevationCell(geoInput.i, geoInput.j,
                                  Sized(catalog.maria), Sized(catalog.craters))
       /\ \A n \in 1..Len(catalog.maria) :
            catalog.maria[n].size <= 0 =>
              MareDelta(lat, lon, catalog.maria[n]) = 0
       /\ \A n \in 1..Len(catalog.craters) :
            catalog.craters[n].size <= 0 =>
              CraterDelta(lat, lon, catalog.craters[n]) = 0
\* a cell has been built at the centre of a basin of size zero and of a
\* crater of negative size
C16_Witness ==
  /\ CellBuilt
  /\ \E n \in CentredOn(Catalogs[geoInput.catalog].maria,
                        CellLat(geoInput.i), CellLon(geoInput.j)) :
       Catalogs[geoInput.catalog].maria[n].size = 0
  /\ \E n \in CentredOn(Catalogs[geoInput.catalog].craters,
                        CellLat(geoInput.i), CellLon(geoInput.j)) :
       Catalogs[geoInput.catalog].craters[n].size < 0

\* ------------------------------------------------------------------------
\* Properties of the resource rings (SpecRes)
\* ------------------------------------------------------------------------
InLatRange(lat) == lat >= -Deg(90) /\ lat <= Deg(90)
RingSampled == geoInput.op = "ring" /\ geoOutput # NULL
\* C17: every latitude passed to getElevationAt is in [-90, 90]: the
\* latitude of every artifact, crater and basin of the catalogs, of every
\* vertex of the terrain, and resource.lat + dlat of every point of the
\* outer and of the inner ring of every resource.
C17_LatitudesInRange ==
  /\ \A k \in 1..Len(ARTIFACTS) : InLatRange(ARTIFACTS[k].lat)
  /\ \A k \in 1..Len(CRATERS) : InLatRange(CRATERS[k].lat)
  /\ \A k \in 1..Len(MARIA) : InLatRange(MARIA[k].lat)
  /\ \A k \in 1..Len(RESOURCES) : InLatRange(RESOURCES[k].lat)
  /\ \A i \in 0..(res - 1) : InLatRange(CellLat(i))
  /\ RingSampled =>
       InLatRange(geoOutput.outer.lat) /\ InLatRange(geoOutput.inner.lat)

\* ------------------------------------------------------------------------
\* Properties of the longitude normalization (SpecGeo)
\* ------------------------------------------------------------------------
Wrapped == geoInput.op = "wrap" /\ geoOutput # NULL
\* C18: getElevationAt brings every longitude into [-180, 180), changing it
\* by a multiple of 360 degrees, and the columns it reads are in
\* [0, 2 * res - 1].
C18_HalfOpenLongitude ==
  Wrapped =>
    /\ geoOutput.lon >= -Deg(180)
    /\ geoOutput.lon < Deg(180)
    /\ (geoOutput.lon - geoInput.lon) % Deg(360) = 0
    /\ geoOutput.j0 \in 0..(res * 2 - 1)
    /\ geoOutput.j1 \in 0..(res * 2 - 1)

\* ------------------------------------------------------------------------
\* Properties of the startup (Spec)
\* ------------------------------------------------------------------------
\* C19: window.elevationData is assigned once, by createTerrain during
\* init, and keeps that value; it is assigned before createArtifacts,
\* createResources (with the feature markers) and every later
\* openMissionPanel and showTrajectory read it, so that no caller ever
\* takes the fallback elevation 0.
C19_BuiltOnceBeforeUse ==
  /\ [](fallbacks = {})
  /\ [](elevationWrites <= 1)
  /\ [](loaded => elevationData # NULL /\ elevationWrites = 1)
  /\ [][elevationData # NULL => elevationData' = elevationData]_vars
\* the page has loaded and a trajectory has been built on the stored field
C19_Witness ==
  /\ loaded
  /\ elevationWrites = 1
  /\ elevationData = generateElevation(MARIA, CRATERS)
  /\ paths # << >>
  /\ fallbacks = {}

\* ------------------------------------------------------------------------
\* Properties of the search box (SpecSearch)
\* ------------------------------------------------------------------------
AllOrigins == \A f \in FilterNames : state[f]
\* the lower-cased query is empty or is contained in the artifact's name, in
\* its year or in its operator
Found(data, query) ==
  \/ query = << >>
  \/ includes(toLowerCase(data.name), query)
  \/ includes(String(data.year), query)
  \/ includes(toLowerCase(data.operator), query)
\* C20: with every origin filter on and the artifacts shown, an artifact is
\* visible exactly when the lower-cased query is empty or is contained in
\* its name, in its year or in its operator (its country of origin)
C20_SearchByCountry ==
  (AllOrigins /\ state.showArtifacts) =>
    \A i \in 1..Len(ArtifactText) :
      markerVisible[i] <=>
        Found(ArtifactText[i], toLowerCase(state.searchQuery))

\* ------------------------------------------------------------------------
\* Properties of the joins of an orbiter's path (SpecTraj)
\* ------------------------------------------------------------------------
\* the last point of the approach and the first point of the orbit sweep
lastApproach(k) == paths[k].curvePoints[approachSegments + 1]
firstOrbit(k) == paths[k].curvePoints[approachSegments + 2]
\* two angles that differ by whole turns
SameAngle(a, b) == (a - b) % (2 * PI) = 0
\* C21: in the path of a landed or crashed orbiter the approach ends at the
\* orbit insertion point, which lies on the orbit sphere at the longitude
\* opposite the landing longitude; the sweep starts at the insertion angle,
\* and the last approach point equals the first orbit point
C21_PartsJoin ==
  \A k \in OrbiterDescentPaths :
    /\ Near(lastApproach(k), orbitInsertionPoint(paths[k].artifact))
    /\ Near(orbitInsertionPoint(paths[k].artifact),
            latLonToVector3(paths[k].artifact.lat,
                            paths[k].artifact.lon + Deg(180),
                            (MOON_RADIUS + 80) * PosScale))
    /\ SameAngle(startAngle(paths[k].artifact),
                 landingTheta(paths[k].artifact) + PI)
    /\ Near(lastApproach(k), firstOrbit(k))

\* ------------------------------------------------------------------------
\* Properties of the orbit sweep's span (SpecGeo)
\* ------------------------------------------------------------------------
SpanTaken == geoInput.op = "sweep" /\ geoOutput # NULL
\* C22: for a landing site at any longitude in [-180, 180] and latitude in
\* [-90, 90] the normalization ends with a span in (-pi, pi] that differs
\* from endAngle - startAngle by whole turns, at most two of them
C22_ShorterArc ==
  SpanTaken =>
    /\ geoOutput.angleSpan > -PI
    /\ geoOutput.angleSpan <= PI
    /\ SameAngle(geoOutput.angleSpan,
                 geoOutput.endAngle - geoOutput.startAngle)
    /\ Abs(geoOutput.angleSpan
             - (geoOutput.endAngle - geoOutput.startAngle)) <= 2 * (2 * PI)
\* a span that each of the two loops and the final test changed: 5 pi / 2
\* comes down to pi / 2
C22_Witness ==
  /\ SpanTaken
  /\ geoOutput.endAngle - geoOutput.startAngle > 2 * PI
  /\ geoOutput.angleSpan > 0

\* ------------------------------------------------------------------------
\* Properties of the random fallback of the label pass (SpecLabel)
\* ------------------------------------------------------------------------
\* the labels that findLabelPosition placed by its random fallback
FallbackLabels == { k \in 1..Len(labelPositions) : labelOffsets[k] = 0 }
\* the anchor of the k-th label of the pass: its marker's position
LabelAnchor(k) == MarkerPos(ARTIFACTS[k], elevationData)
\* what the label is displaced by from its anchor
Displaced(k, anchor) == Sub(labelPositions[k], anchor)
AllBlocked(k, anchor) ==
  \A c \in 1..Len(offsets) : Blocked(Add(anchor, offsets[c]), k)
JitterBounded(by) ==
  /\ Abs(by[1]) <= 20 * PosScale
  /\ Abs(by[3]) <= 20 * PosScale
\* the displacements of the fallback labels
FallbackDisplacements ==
  { Displaced(k, LabelAnchor(k)) : k \in FallbackLabels }
\* C23 as stated: the fallback is returned only when each of the eight
\* candidates is closer than 30 units to an earlier label; it displaces the
\* label by at most 20 units in x and in z, and by the same vertical lift
\* on every call
C23_FixedLift ==
  /\ \A k \in FallbackLabels :
       \A anchor \in {LabelAnchor(k)} :
         AllBlocked(k, anchor) /\ JitterBounded(Displaced(k, anchor))
  /\ \A by, other \in FallbackDisplacements : by[2] = other[2]
\* C23, amended: the vertical lift is 12 units plus a random part of less
\* than 20 units
C23_BoundedLift ==
  \A k \in FallbackLabels :
    \A anchor \in {LabelAnchor(k)} :
      /\ AllBlocked(k, anchor)
      /\ \A by \in {Displaced(k, anchor)} :
           /\ JitterBounded(by)
           /\ by[2] >= 12 * PosScale
           /\ by[2] < 32 * PosScale
\* two fallback labels of one pass, lifted by different amounts, one of
\* them moved sideways
C23_Witness ==
  \E by, other \in FallbackDisplacements :
    /\ by[2] # other[2]
    /\ by[1] # 0

\* ------------------------------------------------------------------------
\* Properties of the trajectory session (Spec)
\* ------------------------------------------------------------------------
\* the artifact whose trajectory is displayed, "" when none is
DisplayedFor ==
  IF trajectoryGroup = 0 THEN "" ELSE paths[trajectoryGroup].artifact.name
\* the artifact the open mission panel shows, "" when the panel is hidden
Selected == IF missionPanel.hidden THEN "" ELSE missionPanel.artifactName
\* C24: whenever a trajectory is displayed the mission panel is open and
\* shows the artifact the trajectory was built for; after a step that opens
\* the panel for another artifact or closes it, no trajectory of the
\* artifact shown before is displayed
C24_SessionFollowsSelection ==
  /\ [](DisplayedFor # "" => Selected = DisplayedFor)
  /\ [][(Selected # "" /\ Selected' # Selected) =>
          DisplayedFor' # Selected]_vars

\* ------------------------------------------------------------------------
\* Properties of the traversal of the path (SpecAnimFair)
\* ------------------------------------------------------------------------
\* the progress and the point index of the displayed trajectory
Progress == paths[trajectoryGroup].animationProgress
Index == CursorIndex(paths[trajectoryGroup])
FinalIndex == Len(paths[trajectoryGroup].curvePoints) - 1
\* C25: while a trajectory is displayed and frames are rendered the progress
\* is 0 again and again; a frame leaves the marker's index or moves it to
\* the next one, and the frame that wraps the progress to 0 finds the marker
\* on the final point of the path
C25_FullTraversal ==
  /\ []<>(trajectoryGroup # 0 => Progress = 0)
  /\ [][(trajectoryGroup # 0 /\ trajectoryGroup' = trajectoryGroup) =>
          IF Progress' < Progress
            THEN Progress' = 0 /\ Index = FinalIndex
            ELSE Index' \in {Index, Index + 1}]_vars

\* ------------------------------------------------------------------------
\* Properties of the interpolation weights (SpecGeo)
\* ------------------------------------------------------------------------
WeightsTaken == geoInput.op = "weights" /\ geoOutput # NULL
\* the four weights, in Milli * Milli units, in the order e00, e10, e01, e11
Weights(fx, fy) ==
  << (Milli - fx) * (Milli - fy), fx * (Milli - fy), (Milli - fx) * fy,
     fx * fy >>
Corners(out) == { out.e00, out.e10, out.e01, out.e11 }
\* C26: for a latitude in [-90, 90] and any longitude each of the four
\* weights of getElevationAt is in [0, 1] and they sum to 1; the sample is
\* between the least and the greatest of the four cells read, and so within
\* the range the grid's cells are clamped to
C26_ConvexSample ==
  WeightsTaken =>
    /\ \A c \in 1..4 :
         /\ Weights(geoOutput.fx, geoOutput.fy)[c] >= 0
         /\ Weights(geoOutput.fx, geoOutput.fy)[c] <= Milli * Milli
    /\ Weights(geoOutput.fx, geoOutput.fy)[1]
         + Weights(geoOutput.fx, geoOutput.fy)[2]
         + Weights(geoOutput.fx, geoOutput.fy)[3]
         + Weights(geoOutput.fx, geoOutput.fy)[4] = Milli * Milli
    /\ \E e \in Corners(geoOutput) : e <= geoOutput.sampled
    /\ \E e \in Corners(geoOutput) : e >= geoOutput.sampled
    /\ geoOutput.sampled >= ClampScale(-8 * KmScale)
    /\ geoOutput.sampled <= ClampScale(10 * KmScale)
\* a sample inside a cell, off every vertex, at a longitude that the loops
\* brought back: all four weights are positive and the four cells differ
C26_Witness ==
  /\ WeightsTaken
  /\ \A c \in 1..4 : Weights(geoOutput.fx, geoOutput.fy)[c] > 0
  /\ Cardinality(Corners(geoOutput)) = 4
  /\ geoInput.lon > Deg(180)
  /\ geoOutput.sampled \notin Corners(geoOutput)

\* ------------------------------------------------------------------------
\* Properties of the labels' visibility (SpecSearch)
\* ------------------------------------------------------------------------
\* C27: after any sequence of checkbox changes, keys and search input, an
\* artifact's label is visible only if its marker is visible and showLabels
\* is on
C27_LabelFollowsMarker ==
  \A i \in 1..Len(ArtifactText) :
    labelVisible[i] => (markerVisible[i] /\ state.showLabels)
\* the labels are on, and of the artifacts hidden by an origin filter, by the
\* query or by the artifacts toggle none has its label shown, while some
\* other label is shown
C27_Witness ==
  /\ state.showLabels
  /\ ~ state.filterChina
  /\ state.searchQuery # << >>
  /\ \E i \in 1..Len(ArtifactText) : ~ markerVisible[i] /\ ~ labelVisible[i]
  /\ \E i \in 1..Len(ArtifactText) : labelVisible[i]


\* ------------------------------------------------------------------------
\* Camera fly-tos
\* ------------------------------------------------------------------------
\* no animateCamera closure is left running
CameraAtRest == camera.animateCamera = << >>
\* the target of the fly-to that was started last
LatestTarget == camera.targets[Len(camera.targets)]
\* C28: when a fly-to is started while an earlier one is still running,
\* then once all of them have finished the camera rests at the target of
\* the one that was started last
C28_LatestFlyToWins ==
  (CameraAtRest /\ camera.targets # << >>) => camera.position = LatestTarget
\* two fly-tos have run together and both have ended
C28_Witness ==
  /\ CameraAtRest
  /\ Len(camera.targets) >= 2
  /\ camera.position = LatestTarget


\* ------------------------------------------------------------------------
\* The resource opacity (SpecKeys)
\* ------------------------------------------------------------------------
\* |a - b|, exactly
Apart(a, b) ==
  IF LessEq(a, b) THEN Carried(b[1] - a[1], b[2] - a[2])
  ELSE Carried(a[1] - b[1], a[2] - b[2])
\* 0.1 to within 2^-52, the spacing of the doubles at 1
TenthOrSo(d) ==
  /\ LessEq(Carried(Tenth[1], Tenth[2] - 16), d)
  /\ LessEq(d, Carried(Tenth[1], Tenth[2] + 16))
OpacityInRange(opacity) == LessEq(Fifth, opacity) /\ LessEq(opacity, One)
\* from a to b is a step of 0.1, or a shorter one that ends on a bound
OpacityStep(a, b) ==
  \/ a = b
  \/ TenthOrSo(Apart(a, b))
  \/ b \in {Fifth, One} /\ LessEq(Apart(a, b), Tenth)
\* C29: state.resourceOpacity starts at 0.7 and after any sequence of
\* '+' / '=' and '-' / '_' presses it is between 0.2 and 1.0, as is the
\* opacity the ring materials were computed from; a press moves it by 0.1,
\* or onto the bound when that is less than 0.1 away, or not at all when
\* it is on the bound
C29_OpacityBounded ==
  /\ state.resourceOpacity = SevenTenths
  /\ [](/\ OpacityInRange(state.resourceOpacity)
        /\ \A kind \in Deposits :
             resourceMeshes[kind].opacityFrom # NULL =>
               OpacityInRange(resourceMeshes[kind].opacityFrom))
  /\ [][OpacityStep(state.resourceOpacity, state'.resourceOpacity)]_vars
\* the opacity is on its upper bound and the rings are drawn with it
C29_Witness ==
  /\ state.resourceOpacity = One
  /\ resourceMeshes["water"].visible
  /\ resourceMeshes["water"].opacityFrom = One


\* ------------------------------------------------------------------------
\* Artifacts at one place (SpecColocated)
\* ------------------------------------------------------------------------
\* the anchor of the k-th label: its marker's position
AnchorOf(k) == MarkerPos(geoInput.catalog[k], elevationData)
\* label j was placed before label k and sits on the first candidate of
\* k's anchor
OnFirstCandidate(j, k, anchor) ==
  /\ j < k
  /\ labelPositions[j] = Add(anchor, offsets[1])
\* each of the eight candidates of the anchor is closer than minDistance to
\* label j
CandidatesNear(j, anchor) ==
  \A c \in 1..Len(offsets) :
    ~ LabelsApart(Add(anchor, offsets[c]), labelPositions[j])
\* label k is where the random fallback puts it
ByFallback(k, anchor) ==
  /\ labelOffsets[k] = 0
  /\ labelPositions[k] \in
       { Add(anchor, RandomOffset(RandomDraws[d])) : d \in 1..Len(RandomDraws) }
\* C30: when a label sits at anchor + (0, 12, 0), each of the eight
\* candidates of that anchor is closer than 30 units to it, and
\* findLabelPosition places a later label of the same anchor by its random
\* fallback
C30_ColocatedFallBack ==
  \A k \in 1..Len(labelPositions) :
    \A anchor \in {AnchorOf(k)} :
      \A j \in 1..Len(labelPositions) :
        OnFirstCandidate(j, k, anchor) =>
          CandidatesNear(j, anchor) /\ ByFallback(k, anchor)
\* a second artifact at the place of the first one, its label placed
C30_Witness ==
  /\ Len(labelPositions) >= 2
  /\ geoInput.catalog[1] = geoInput.catalog[2]
  /\ OnFirstCandidate(1, 2, AnchorOf(2))
  /\ labelOffsets[2] = 0

=============================================================================
